---- MODULE Spec2Model ----
(***************************************************************************)
(* A model of the Pygame arcade collection: the shared high-score file     *)
(* (scores.py) and the state machines of the individual games.  Every game *)
(* is an independent script, so every game has its own specification; the  *)
(* variables of the games a specification does not run stay at their       *)
(* initial value.                                                          *)
(***************************************************************************)
EXTENDS Integers, Sequences, FiniteSets, TLC

VARIABLES
    launched,     \* the game whose run_game the launcher has called (launcher.py:222)
    score_file,   \* content of high_scores.json (scores.py:11)
    sc_call,      \* the last save_score call: game name, argument, file before it
    \* Pong (pong.py)
    pong_pc,            \* where run_game stands: "menu", "playing", "end_screen", "returned", "raised"
    pong_player_score,  \* player_score of game_loop
    pong_ai_score,      \* ai_score of game_loop
    pong_ret,           \* the pair game_loop returned last
    pong_saved,         \* the argument of the last scores.save_score("Pong", ...)
    pong_quit,          \* how the player quit during play: "none", "window", "pause"
    \* Pac-Man rounds (pacman.py, run_game and game_loop)
    pm_pc,         \* where run_game stands: "menu", "playing", "returned"
    pm_pellets,    \* number of pellets left (len(pellets))
    pm_power,      \* number of power pellets left (len(power_pellets))
    pm_score,      \* score of game_loop
    pm_lives,      \* lives of game_loop
    pm_best,       \* the highest final score of a round that has ended
    \* Asteroids rounds (asteroids.py, run_game and game_loop)
    ast_pc,        \* where run_game stands: "menu", "playing", "returned"
    ast_count,     \* number of asteroids of each size 1..3 in the list
    ast_score,     \* score of game_loop
    ast_best,      \* the highest final score of a round that has ended
    \* one Pac-Man ghost (pacman.py, Ghost and game_loop)
    gh_start,      \* ghost_start_pos[i] of the ghost
    gh_x,          \* ghost.x
    gh_y,          \* ghost.y
    gh_direction,  \* ghost.direction
    gh_pc,         \* "idle", "playing", or "IndexError" once move has raised it
    gh_reads,      \* the subscripts <<row, col>> the last move applied to maze
    \* Frogger (frogger.py, Frog and game_loop)
    frog_level,    \* level of game_loop
    frog_x,        \* frog.x
    frog_y,        \* frog.y
    frog_rect,     \* frog.rect.topleft
    frog_lives,    \* frog.lives
    frog_pc,       \* "idle", "playing", or the status game_loop returned
    frog_coll,     \* whether the last frame called colliderect, and rect.topleft - (x, y) then
    \* Tetris (tetris_game.py, TetrisGame)
    tet_game,      \* the TetrisGame object: board, score, level, lines_cleared_total,
                   \* game_over, current_piece, next_piece
    tet_locks,     \* number of lock_piece calls so far
    \* Snake (snake_game.py, game_loop)
    sn_pc,          \* "idle", "playing", or "game_over" once game_loop has returned
    sn_snake_body,  \* snake_body, the head (snake_pos) first
    sn_direction,   \* direction
    sn_food_pos,    \* food_pos
    sn_score,       \* score
    \* Flappy Bird (flappy_bird.py, run_game)
    fl_pc,             \* "idle", "events", "update", or "returned"
    fl_bird_rect,      \* bird_rect.topleft
    fl_bird_movement,  \* bird_movement, in quarters of a pixel
    fl_game_active,    \* game_active
    fl_score,          \* score, in halves
    fl_high_score,     \* high_score, in halves
    fl_pipe_list,      \* pipe_list, the topleft of every pipe
    fl_flaps,          \* number of flaps so far
    fl_spawned,        \* number of SPAWNPIPE events so far
    fl_restarted,      \* the event loop just run has ended with the restart key
    \* Pac-Man with its ghosts (pacman.py, game_loop)
    pac_game,          \* the locals of game_loop (pc "idle" before it is called)
    \* Minesweeper (minesweeper.py, run_game and game_loop)
    ms_game,           \* current_level and the locals of game_loop (pc "idle" before run_game)
    \* Tic-Tac-Toe (tic_tac_toe.py, TicTacToeGame)
    ttt_game, \* the TicTacToeGame object and the loop that runs (pc "idle" before run_game)
    \* Tetris (tetris_game.py, run_game)
    tet_run, \* the locals of run_game and the frame just run (pc "idle" before run_game)
    \* Galaga (galaga.py, challenging_stage)
    gal_stage, \* the locals of challenging_stage (pc "idle" before the call)
    \* The platformer (cyber_ninja.py, WorldManager)
    world_manager  \* the WorldManager object of run_game

scoreVars == <<score_file, sc_call>>

pongVars == <<pong_pc, pong_player_score, pong_ai_score, pong_ret, pong_saved, pong_quit>>

pmVars == <<pm_pc, pm_pellets, pm_power, pm_score, pm_lives, pm_best>>

astVars == <<ast_pc, ast_count, ast_score, ast_best>>

ghostVars == <<gh_start, gh_x, gh_y, gh_direction, gh_pc, gh_reads>>

frogVars == <<frog_level, frog_x, frog_y, frog_rect, frog_lives, frog_pc, frog_coll>>

tetVars == <<tet_game, tet_locks>>

snakeVars == <<sn_pc, sn_snake_body, sn_direction, sn_food_pos, sn_score>>

flappyVars ==
    <<fl_pc, fl_bird_rect, fl_bird_movement, fl_game_active, fl_score, fl_high_score, fl_pipe_list, fl_flaps, fl_spawned, fl_restarted>>

pacVars == <<pac_game>>

msVars == <<ms_game>>

tttVars == <<ttt_game>>

trunVars == <<tet_run>>

galVars == <<gal_stage>>

wmVars == <<world_manager>>

vars == <<launched, scoreVars, pongVars, pmVars, astVars, ghostVars, frogVars, tetVars, snakeVars, flappyVars, pacVars, msVars, tttVars, trunVars, galVars, wmVars>>

notScores == <<launched, pongVars, pmVars, astVars, ghostVars, frogVars, tetVars, snakeVars, flappyVars, pacVars, msVars, tttVars, trunVars, galVars, wmVars>>

notPong == <<launched, sc_call, pmVars, astVars, ghostVars, frogVars, tetVars, snakeVars, flappyVars, pacVars, msVars, tttVars, trunVars, galVars, wmVars>>

notPm == <<launched, sc_call, pongVars, astVars, ghostVars, frogVars, tetVars, snakeVars, flappyVars, pacVars, msVars, tttVars, trunVars, galVars, wmVars>>

notAst == <<launched, sc_call, pongVars, pmVars, ghostVars, frogVars, tetVars, snakeVars, flappyVars, pacVars, msVars, tttVars, trunVars, galVars, wmVars>>

notGhost == <<launched, scoreVars, pongVars, pmVars, astVars, frogVars, tetVars, snakeVars, flappyVars, pacVars, msVars, tttVars, trunVars, galVars, wmVars>>

notFrog == <<launched, scoreVars, pongVars, pmVars, astVars, ghostVars, tetVars, snakeVars, flappyVars, pacVars, msVars, tttVars, trunVars, galVars, wmVars>>

notTet == <<launched, scoreVars, pongVars, pmVars, astVars, ghostVars, frogVars, snakeVars, flappyVars, pacVars, msVars, tttVars, trunVars, galVars, wmVars>>

notSnake == <<launched, scoreVars, pongVars, pmVars, astVars, ghostVars, frogVars, tetVars, flappyVars, pacVars, msVars, tttVars, trunVars, galVars, wmVars>>

notFlappy == <<launched, sc_call, pongVars, pmVars, astVars, ghostVars, frogVars, tetVars, snakeVars, pacVars, msVars, tttVars, trunVars, galVars, wmVars>>

notPac == <<launched, scoreVars, pongVars, pmVars, astVars, ghostVars, frogVars, tetVars, snakeVars, flappyVars, msVars, tttVars, trunVars, galVars, wmVars>>

notMs == <<launched, scoreVars, pongVars, pmVars, astVars, ghostVars, frogVars, tetVars, snakeVars, flappyVars, pacVars, tttVars, trunVars, galVars, wmVars>>

notTtt == <<launched, scoreVars, pongVars, pmVars, astVars, ghostVars, frogVars, tetVars, snakeVars, flappyVars, pacVars, msVars, trunVars, galVars, wmVars>>

notTrun == <<launched, sc_call, pongVars, pmVars, astVars, ghostVars, frogVars, tetVars, snakeVars, flappyVars, pacVars, msVars, tttVars, galVars, wmVars>>

notGal == <<launched, scoreVars, pongVars, pmVars, astVars, ghostVars, frogVars, tetVars, snakeVars, flappyVars, pacVars, msVars, tttVars, trunVars, wmVars>>

notWm == <<launched, scoreVars, pongVars, pmVars, astVars, ghostVars, frogVars, tetVars, snakeVars, flappyVars, pacVars, msVars, tttVars, trunVars, galVars>>

(***************************************************************************)
(* Python values.  Numbers are kept in halves (v = 2 * value), so that the *)
(* half points Flappy Bird counts are values of the model.  A bool is an   *)
(* int for isinstance; NaN is a float that compares False with everything. *)
(***************************************************************************)
PyInt(n) == [t |-> "int", v |-> 2 * n, s |-> ""]

PyFloat2(h) == [t |-> "float", v |-> h, s |-> ""]

PyBool(b) == [t |-> "bool", v |-> IF b THEN 2 ELSE 0, s |-> ""]

PyNaN == [t |-> "nan", v |-> 0, s |-> ""]

PyStr(str) == [t |-> "str", v |-> 0, s |-> str]

PyNone == [t |-> "none", v |-> 0, s |-> ""]

\* isinstance(x, (int, float))
IsIntOrFloat(x) == x.t \in {"int", "float", "bool", "nan"}

\* x <= 0 for a number x: False for NaN
LeqZero(x) == x.t # "nan" /\ x.v <= 0

\* x > y for numbers x, y: False when either is NaN
PyGreater(x, y) == x.t # "nan" /\ y.t # "nan" /\ x.v > y.v

(***************************************************************************)
(* The score file: missing, not valid JSON, or a flat JSON object.  A JSON *)
(* object is a function from game names to JSON number tokens.  A file     *)
(* that is not valid JSON is either text json.load rejects ("corrupt") or  *)
(* bytes that open(SCORE_FILE, 'r') cannot decode ("undecodable").         *)
(***************************************************************************)
NoFile == [kind |-> "missing"]

Corrupt == [kind |-> "corrupt"]

Undecodable == [kind |-> "undecodable"]

\* load_scores() raises: json.load reads the file, the read raises
\* UnicodeDecodeError, and the except clause names JSONDecodeError and IOError only
LoadRaises(file) == file.kind = "undecodable"

JsonObject(m) == [kind |-> "object", map |-> m]

\* json.dump of one value: ints as digits, floats by repr, bools as true/false
JsonEncode(x) ==
    CASE x.t = "int"   -> [tok |-> "int", v |-> x.v]
      [] x.t = "float" -> [tok |-> "real", v |-> x.v]
      [] x.t = "bool"  -> [tok |-> IF x.v = 2 THEN "true" ELSE "false", v |-> 0]
      [] x.t = "nan"   -> [tok |-> "NaN", v |-> 0]

\* json.load of one token
JsonDecode(j) ==
    CASE j.tok = "int"   -> [t |-> "int", v |-> j.v, s |-> ""]
      [] j.tok = "real"  -> PyFloat2(j.v)
      [] j.tok = "true"  -> PyBool(TRUE)
      [] j.tok = "false" -> PyBool(FALSE)
      [] j.tok = "NaN"   -> PyNaN

EmptyDict == [g \in {} |-> PyNone]

\* load_scores(): {} when the file is missing or invalid, else the decoded object
\* (for a file with ~LoadRaises(file))
load_scores(file) ==
    IF file.kind = "missing" THEN EmptyDict
    ELSE IF file.kind = "corrupt" THEN EmptyDict
    ELSE [g \in DOMAIN file.map |-> JsonDecode(file.map[g])]

\* scores.get(game_name, 0)
DictGet(d, g, default) == IF g \in DOMAIN d THEN d[g] ELSE default

\* scores[game_name] = new_score on a dict that forgets the other games
DictSetAlone(d, g, x) == [h \in {g} |-> x]

\* scores[game_name] = new_score
DictSet(d, g, x) == [h \in DOMAIN d \cup {g} |-> IF h = g THEN x ELSE d[h]]

\* json.dump(scores, f) after open(SCORE_FILE, 'w')
DumpScores(d) == JsonObject([g \in DOMAIN d |-> JsonEncode(d[g])])

\* save_score with the new-high-score test dropped: every positive number is written
SaveScoreAlways(file, game_name, new_score) ==
    IF ~IsIntOrFloat(new_score) \/ LeqZero(new_score) \/ LoadRaises(file) THEN file
    ELSE DumpScores(DictSet(load_scores(file), game_name, new_score))

\* save_score with >= for > in the new-high-score test
SaveScoreGeq(file, game_name, new_score) ==
    IF ~IsIntOrFloat(new_score) \/ LeqZero(new_score) \/ LoadRaises(file) THEN file
    ELSE LET scores == load_scores(file)
             current_high_score == DictGet(scores, game_name, PyInt(0))
         IN  IF ~PyGreater(current_high_score, new_score) /\ new_score.t # "nan"
             THEN DumpScores(DictSet(scores, game_name, new_score))
             ELSE file

\* save_score(game_name, new_score): the file afterwards (unchanged when the
\* call returns early or load_scores raises)
save_score(file, game_name, new_score) ==
    IF ~IsIntOrFloat(new_score) \/ LeqZero(new_score) \/ LoadRaises(file) THEN file
    ELSE LET scores == load_scores(file)
             current_high_score == DictGet(scores, game_name, PyInt(0))
         IN  IF PyGreater(new_score, current_high_score)
             THEN DumpScores(DictSet(scores, game_name, new_score))
             ELSE file

\* no save_score call has been recorded
NoCall == [called |-> FALSE]

(***************************************************************************)
(* Pong (pong.py): run_game, game_loop and the screens it calls.  The ball *)
(* and the paddles are left out: a frame's input is the wall the ball has  *)
(* reached, which is all that moves the two scores.                        *)
(***************************************************************************)
WINNING_SCORE == 5

NoValue == PyNone

PongInit ==
    /\ pong_pc = "menu"
    /\ pong_player_score = 0
    /\ pong_ai_score = 0
    /\ pong_ret = <<NoValue, NoValue>>
    /\ pong_saved = NoValue
    /\ pong_quit = "none"

\* main_menu returns 'quit' (run_game returns 0) or 'play' (game_loop starts)
PongMainMenu(menu_choice) ==
    /\ launched = "Pong"
    /\ pong_pc = "menu"
    /\ IF menu_choice = "quit"
       THEN pong_pc' = "returned" /\ UNCHANGED <<pong_player_score, pong_ai_score>>
       ELSE pong_pc' = "playing" /\ pong_player_score' = 0 /\ pong_ai_score' = 0
    /\ pong_quit' = "none"
    /\ UNCHANGED <<pong_ret, pong_saved, score_file, notPong>>

\* game_loop, pygame.QUIT: return 'quit', player_score
WindowQuitReturn(player_score) == <<PyStr("quit"), PyInt(player_score)>>

\* game_loop, pause_choice == 'quit': return player_score, 'quit'
PauseQuitReturn(player_score) == <<PyInt(player_score), PyStr("quit")>>

\* font.render(text, ...) in draw_text takes a str only
RenderRaises(text) == text.t # "str"

\* run_game after game_loop has returned `ret`: unpack, save, return or end screen
PongAfterLoop(ret) ==
    LET winner_message == ret[1]
        final_score == ret[2]
    IN  /\ pong_ret' = ret
        /\ score_file' = save_score(score_file, "Pong", final_score)
        /\ pong_saved' = final_score
        /\ pong_pc' = IF winner_message = PyStr("quit") THEN "returned"
                      ELSE IF RenderRaises(winner_message) THEN "raised"
                      ELSE "end_screen"

\* a frame whose event loop meets pygame.QUIT
PongWindowQuit ==
    /\ pong_pc = "playing"
    /\ pong_quit' = "window"
    /\ PongAfterLoop(WindowQuitReturn(pong_player_score))
    /\ UNCHANGED <<pong_player_score, pong_ai_score, notPong>>

\* a frame whose event loop meets K_p: pause_menu returns 'resume' or 'quit'
PongPause(pause_choice) ==
    /\ pong_pc = "playing"
    /\ IF pause_choice = "quit"
       THEN /\ pong_quit' = "pause"
            /\ PongAfterLoop(PauseQuitReturn(pong_player_score))
       ELSE UNCHANGED <<pong_quit, pong_ret, pong_saved, pong_pc, score_file>>
    /\ UNCHANGED <<pong_player_score, pong_ai_score, notPong>>

\* a frame without a quit: the ball reaches the left wall, the right wall or neither,
\* then the winner check at the end of the frame
PongFrame(wall) ==
    /\ pong_pc = "playing"
    /\ LET ai == IF wall = "left" THEN pong_ai_score + 1 ELSE pong_ai_score
           pl == IF wall = "right" THEN pong_player_score + 1 ELSE pong_player_score
       IN  /\ pong_ai_score' = ai
           /\ pong_player_score' = pl
           /\ IF pl >= WINNING_SCORE
              THEN PongAfterLoop(<<PyStr("Player Wins!"), PyInt(pl)>>)
              ELSE IF ai >= WINNING_SCORE
              THEN PongAfterLoop(<<PyStr("AI Wins!"), PyInt(ai)>>)
              ELSE UNCHANGED <<pong_ret, pong_saved, pong_pc, score_file>>
    /\ UNCHANGED <<pong_quit, notPong>>

\* end_screen returns 'quit' (run_game returns final_score) or 'play_again'
PongEndScreen(end_choice) ==
    /\ pong_pc = "end_screen"
    /\ pong_pc' = IF end_choice = "quit" THEN "returned" ELSE "menu"
    /\ UNCHANGED <<pong_player_score, pong_ai_score, pong_ret, pong_saved, pong_quit,
                   score_file, notPong>>

PongNext ==
    \/ \E c \in {"quit", "play"} : PongMainMenu(c)
    \/ PongWindowQuit
    \/ \E c \in {"resume", "quit"} : PongPause(c)
    \/ \E w \in {"left", "right", "none"} : PongFrame(w)
    \/ \E c \in {"quit", "play_again"} : PongEndScreen(c)


(***************************************************************************)
(* Pac-Man and Asteroids, as far as the score is concerned: run_game, the  *)
(* frame of game_loop and the end screen.  Positions are left out: the     *)
(* pellets are kept by their number, the asteroids by their number per     *)
(* size, and a frame's inputs say what the player ran into.  The model     *)
(* keeps PelletCount of the maze's 238 pellets, PowerPelletCount of its 4  *)
(* power pellets and AsteroidCount of the 5 initial asteroids.             *)
(***************************************************************************)
PelletCount == 2

PowerPelletCount == 1

AsteroidCount == 1

START_LIVES == 3

Max(a, b) == IF a >= b THEN a ELSE b

PmInit ==
    /\ pm_pc = "menu"
    /\ pm_pellets = PelletCount
    /\ pm_power = PowerPelletCount
    /\ pm_score = 0
    /\ pm_lives = START_LIVES
    /\ pm_best = 0

\* run_game: main_menu, then game_loop starts with its initial state
PmMainMenu(menu_choice) ==
    /\ launched = "Pac-Man"
    /\ pm_pc = "menu"
    /\ IF menu_choice = "quit"
       THEN pm_pc' = "returned" /\ UNCHANGED <<pm_pellets, pm_power, pm_score, pm_lives>>
       ELSE /\ pm_pc' = "playing"
            /\ pm_pellets' = PelletCount
            /\ pm_power' = PowerPelletCount
            /\ pm_score' = 0
            /\ pm_lives' = START_LIVES
    /\ UNCHANGED <<pm_best, score_file, notPm>>

\* game_loop returns score: run_game saves it and shows the menu again
PmReturn(score) ==
    /\ score_file' = save_score(score_file, "Pac-Man", PyInt(score))
    /\ pm_pc' = "menu"
    /\ pm_score' = score

\* a quit from the event loop (QUIT, or 'quit' from the pause or settings menu)
PmQuit ==
    /\ pm_pc = "playing"
    /\ PmReturn(pm_score)
    /\ UNCHANGED <<pm_pellets, pm_power, pm_lives, pm_best, notPm>>

\* one frame: the player eats what lies on its cell, meets `hits` ghosts, the win
\* test, and with game_over the end screen and, on 'play_again', the restart
PmFrame(eat, hits, end_choice) ==
    /\ pm_pc = "playing"
    /\ eat = "pellet" => pm_pellets > 0
    /\ eat = "power" => pm_power > 0
    /\ LET pellets == IF eat = "pellet" THEN pm_pellets - 1 ELSE pm_pellets
           power == IF eat = "power" THEN pm_power - 1 ELSE pm_power
           score == pm_score + (IF eat = "pellet" THEN 10 ELSE 0)
                             + (IF eat = "power" THEN 50 ELSE 0)
           lives == pm_lives - hits
           game_over == lives <= 0 \/ (pellets = 0 /\ power = 0)
       IN  IF ~game_over
           THEN /\ pm_pellets' = pellets
                /\ pm_power' = power
                /\ pm_score' = score
                /\ pm_lives' = lives
                /\ UNCHANGED <<pm_pc, pm_best, score_file>>
           ELSE /\ pm_best' = Max(pm_best, score)
                /\ IF end_choice = "quit"
                   THEN /\ PmReturn(score)
                        /\ pm_pellets' = pellets
                        /\ pm_power' = power
                        /\ pm_lives' = lives
                   ELSE /\ pm_pellets' = PelletCount
                        /\ pm_power' = PowerPelletCount
                        /\ pm_score' = 0
                        /\ pm_lives' = START_LIVES
                        /\ UNCHANGED <<pm_pc, score_file>>
    /\ UNCHANGED notPm

AstInitialCount == [size \in 1..3 |-> IF size = 3 THEN AsteroidCount ELSE 0]

AstInit ==
    /\ ast_pc = "menu"
    /\ ast_count = AstInitialCount
    /\ ast_score = 0
    /\ ast_best = 0

AstMainMenu(menu_choice) ==
    /\ launched = "Asteroids"
    /\ ast_pc = "menu"
    /\ IF menu_choice = "quit"
       THEN ast_pc' = "returned" /\ UNCHANGED <<ast_count, ast_score>>
       ELSE ast_pc' = "playing" /\ ast_count' = AstInitialCount /\ ast_score' = 0
    /\ UNCHANGED <<ast_best, score_file, notAst>>

\* game_loop returns score: run_game saves it and shows the menu again
AstReturn(score) ==
    /\ score_file' = save_score(score_file, "Asteroids", PyInt(score))
    /\ ast_pc' = "menu"
    /\ ast_score' = score

\* asteroids.remove(a), and the two pieces of an asteroid larger than 1
AstDestroy(count, size) ==
    IF size = 0 THEN count
    ELSE [k \in 1..3 |-> IF k = size THEN count[k] - 1
                         ELSE IF k = size - 1 THEN count[k] + 2
                         ELSE count[k]]

\* 10 * (4 - a.size)
AstPoints(size) == IF size = 0 THEN 0 ELSE 10 * (4 - size)

\* a quit from the event loop (QUIT, or 'quit' from the pause menu)
AstQuit ==
    /\ ast_pc = "playing"
    /\ AstReturn(ast_score)
    /\ UNCHANGED <<ast_count, ast_best, notAst>>

\* one frame: a bullet destroys an asteroid of size `shot` (0: none), the ship
\* touches one of size `touched` (0: none) with the shield up or not, then the
\* game-over and the win test, each with its end screen and restart
AstFrame(shot, touched, shield, end_choice) ==
    /\ ast_pc = "playing"
    /\ shot > 0 => ast_count[shot] > 0
    /\ LET c1 == AstDestroy(ast_count, shot)
           rammed == IF touched > 0 /\ shield THEN touched ELSE 0
           c2 == AstDestroy(c1, rammed)
           score == ast_score + AstPoints(shot) + AstPoints(rammed)
           game_over == touched > 0 /\ ~shield
           won == \A k \in 1..3 : c2[k] = 0
       IN  /\ touched > 0 => c1[touched] > 0
           /\ IF ~game_over /\ ~won
              THEN /\ ast_count' = c2
                   /\ ast_score' = score
                   /\ UNCHANGED <<ast_pc, ast_best, score_file>>
              ELSE /\ ast_best' = Max(ast_best, score)
                   /\ IF end_choice = "quit"
                      THEN AstReturn(score) /\ ast_count' = c2
                      ELSE /\ ast_count' = AstInitialCount
                           /\ ast_score' = 0
                           /\ UNCHANGED <<ast_pc, score_file>>
    /\ UNCHANGED notAst

RoundsNext ==
    \/ \E c \in {"quit", "play"} : PmMainMenu(c)
    \/ PmQuit
    \/ \E eat \in {"none", "pellet", "power"}, hits \in 0..1,
          c \in {"quit", "play_again"} : PmFrame(eat, hits, c)
    \/ \E c \in {"quit", "play"} : AstMainMenu(c)
    \/ AstQuit
    \/ \E shot \in 0..3, touched \in 0..3, shield \in BOOLEAN,
          c \in {"quit", "play_again"} : AstFrame(shot, touched, shield, c)

(***************************************************************************)
(* The scores specification: any sequence of save_score calls, for any     *)
(* game and any argument, starting from any score file the program can     *)
(* have written (or none, or an unreadable one).                           *)
(***************************************************************************)
MaxScore == 2

GameNames == {"Pac-Man", "Pong"}

ScoreArgs ==
    {PyInt(n) : n \in -1..MaxScore} \cup {PyFloat2(h) : h \in -1..(2 * MaxScore)}
        \cup {PyBool(TRUE), PyBool(FALSE), PyNaN, PyStr("quit"), PyNone}

WrittenFiles ==
    {JsonObject(m) : m \in UNION {[D -> {JsonEncode(PyInt(n)) : n \in 1..MaxScore}] :
                                     D \in SUBSET GameNames}}

ScoresInit ==
    /\ score_file \in {NoFile, Corrupt} \cup WrittenFiles
    /\ sc_call = NoCall

SaveScoreCall(g, s) ==
    /\ score_file' = save_score(score_file, g, s)
    /\ sc_call' = [called |-> TRUE, game |-> g, arg |-> s, before |-> score_file]
    /\ UNCHANGED notScores

ScoresNext == \E g \in GameNames, s \in ScoreArgs : SaveScoreCall(g, s)

\* load_scores() and then save_score(g, s), on any score file
LoadAndSave(g, s) ==
    /\ score_file' = save_score(score_file, g, s)
    /\ sc_call' = [called |-> TRUE, game |-> g, arg |-> s, before |-> score_file,
                   raised |-> LoadRaises(score_file)]
    /\ UNCHANGED notScores

(***************************************************************************)
(* Pac-Man ghosts (pacman.py): one Ghost object of game_loop, its move     *)
(* method as game_loop calls it every move tick with the player's cell,    *)
(* and the reset of the ghosts to their start cells when a ghost catches   *)
(* the player.  MAZE is the list of strings of the source, one character   *)
(* per element.                                                            *)
(***************************************************************************)
MAZE == <<
    <<"#","#","#","#","#","#","#","#","#","#","#","#","#","#","#","#","#","#","#","#","#","#","#","#","#","#","#","#">>,
    <<"#",".",".",".",".",".",".",".",".",".",".",".",".","#","#",".",".",".",".",".",".",".",".",".",".",".",".","#">>,
    <<"#",".","#","#","#","#",".","#","#","#","#","#",".","#","#",".","#","#","#","#","#",".","#","#","#","#",".","#">>,
    <<"#","o","#","#","#","#",".","#","#","#","#","#",".","#","#",".","#","#","#","#","#",".","#","#","#","#","o","#">>,
    <<"#",".","#","#","#","#",".","#","#","#","#","#",".","#","#",".","#","#","#","#","#",".","#","#","#","#",".","#">>,
    <<"#",".",".",".",".",".",".",".",".",".",".",".",".",".",".",".",".",".",".",".",".",".",".",".",".",".",".","#">>,
    <<"#",".","#","#","#","#",".","#","#",".","#","#","#","#","#","#","#","#",".","#","#",".","#","#","#","#",".","#">>,
    <<"#",".","#","#","#","#",".","#","#",".","#","#","#","#","#","#","#","#",".","#","#",".","#","#","#","#",".","#">>,
    <<"#",".",".",".",".",".",".","#","#",".",".",".",".","#","#",".",".",".",".","#","#",".",".",".",".",".",".","#">>,
    <<"#","#","#","#","#","#",".","#","#","#","#","#"," ","#","#"," ","#","#","#","#","#",".","#","#","#","#","#","#">>,
    <<" "," "," "," "," ","#",".","#","#","#","#","#"," ","#","#"," ","#","#","#","#","#",".","#"," "," "," "," "," ">>,
    <<" "," "," "," "," ","#",".","#","#"," "," "," ","G"," "," ","G"," "," "," ","#","#",".","#"," "," "," "," "," ">>,
    <<" "," "," "," "," ","#",".","#","#"," ","#","#","#","#","#","#","#","#"," ","#","#",".","#"," "," "," "," "," ">>,
    <<"#","#","#","#","#","#",".","#","#"," ","#"," "," "," "," "," "," ","#"," ","#","#",".","#","#","#","#","#","#">>,
    <<" "," "," "," "," "," "," "," "," "," ","#"," "," "," "," "," "," ","#"," "," "," "," "," "," "," "," "," "," ">>,
    <<"#","#","#","#","#","#",".","#","#"," ","#"," "," "," "," "," "," ","#"," ","#","#",".","#","#","#","#","#","#">>,
    <<" "," "," "," "," ","#",".","#","#"," ","#","#","#","#","#","#","#","#"," ","#","#",".","#"," "," "," "," "," ">>,
    <<" "," "," "," "," ","#",".","#","#"," "," "," ","G"," "," ","G"," "," "," ","#","#",".","#"," "," "," "," "," ">>,
    <<" "," "," "," "," ","#",".","#","#"," ","#","#","#","#","#","#","#","#"," ","#","#",".","#"," "," "," "," "," ">>,
    <<"#","#","#","#","#","#",".","#","#"," ","#","#","#","#","#","#","#","#"," ","#","#",".","#","#","#","#","#","#">>,
    <<"#",".",".",".",".",".",".",".",".",".",".",".",".","#","#",".",".",".",".",".",".",".",".",".",".",".",".","#">>,
    <<"#",".","#","#","#","#",".","#","#","#","#","#",".","#","#",".","#","#","#","#","#",".","#","#","#","#",".","#">>,
    <<"#",".","#","#","#","#",".","#","#","#","#","#",".","#","#",".","#","#","#","#","#",".","#","#","#","#",".","#">>,
    <<"#","o",".",".","#","#",".",".",".",".",".",".",".","P"," ",".",".",".",".",".",".",".","#","#",".",".","o","#">>,
    <<"#","#","#",".","#","#",".","#","#",".","#","#","#","#","#","#","#","#",".","#","#",".","#","#",".","#","#","#">>,
    <<"#","#","#",".","#","#",".","#","#",".","#","#","#","#","#","#","#","#",".","#","#",".","#","#",".","#","#","#">>,
    <<"#",".",".",".",".",".",".","#","#",".",".",".",".","#","#",".",".",".",".","#","#",".",".",".",".",".",".","#">>,
    <<"#",".","#","#","#","#","#","#","#","#","#","#",".","#","#",".","#","#","#","#","#","#","#","#","#","#",".","#">>,
    <<"#",".","#","#","#","#","#","#","#","#","#","#",".","#","#",".","#","#","#","#","#","#","#","#","#","#",".","#">>,
    <<"#",".",".",".",".",".",".",".",".",".",".",".",".",".",".",".",".",".",".",".",".",".",".",".",".",".",".","#">>,
    <<"#","#","#","#","#","#","#","#","#","#","#","#","#","#","#","#","#","#","#","#","#","#","#","#","#","#","#","#">>
>>

\* maze[row][col] raises IndexError: a Python subscript on a list or str of
\* length len accepts -len..len-1 and nothing else
MazeRaises(row, col) ==
    \/ row < -Len(MAZE) \/ row >= Len(MAZE)
    \/ col < -Len(MAZE[1]) \/ col >= Len(MAZE[1])

\* maze[row][col]; a negative subscript counts from the end
MazeAt(row, col) ==
    MAZE[(IF row < 0 THEN row + Len(MAZE) ELSE row) + 1]
        [(IF col < 0 THEN col + Len(MAZE[1]) ELSE col) + 1]

MazeCells == {<<x, y>> : x \in 0..(Len(MAZE[1]) - 1), y \in 0..(Len(MAZE) - 1)}

ghost_start_pos == {c \in MazeCells : MazeAt(c[2], c[1]) = "G"}

player_start_pos == CHOOSE c \in MazeCells : MazeAt(c[2], c[1]) = "P"

Abs(n) == IF n < 0 THEN -n ELSE n

Delta(move) ==
    CASE move = "UP" -> <<0, -1>>
      [] move = "DOWN" -> <<0, 1>>
      [] move = "LEFT" -> <<-1, 0>>
      [] move = "RIGHT" -> <<1, 0>>

\* the cells of S and those Player.move reaches from them in one step: a cell
\* inside the maze that is no wall
PlayerSteps(S) ==
    S \cup {n \in {<<c[1] + Delta(m)[1], c[2] + Delta(m)[2]>> :
                      c \in S, m \in {"UP", "DOWN", "LEFT", "RIGHT"}} :
               n \in MazeCells /\ MazeAt(n[2], n[1]) # "#"}

RECURSIVE PlayerReach(_)
PlayerReach(S) == IF PlayerSteps(S) = S THEN S ELSE PlayerReach(PlayerSteps(S))

\* the cells (player.x, player.y) can take
PlayerCells == PlayerReach({player_start_pos})

GhostOptions(direction) ==
    CASE direction = "UP" -> <<"UP", "LEFT", "RIGHT">>
      [] direction = "DOWN" -> <<"DOWN", "LEFT", "RIGHT">>
      [] direction = "LEFT" -> <<"LEFT", "UP", "DOWN">>
      [] direction = "RIGHT" -> <<"RIGHT", "UP", "DOWN">>

\* the subscripts <<row, col>> the validity test of `move` applies to maze
GhostProbe(x, y, move) == <<y + Delta(move)[2], x + Delta(move)[1]>>

GhostDist(x, y, move, player_pos) ==
    Abs(x + Delta(move)[1] - player_pos[1]) + Abs(y + Delta(move)[2] - player_pos[2])

\* the loop over valid_moves from position i on, with best_move and min_dist so
\* far (min_dist < 0 stands for float('inf')): dist < min_dist replaces both
RECURSIVE GhostBestMove(_, _, _, _, _, _, _)
GhostBestMove(x, y, valid_moves, player_pos, i, best_move, min_dist) ==
    IF i > Len(valid_moves) THEN best_move
    ELSE LET dist == GhostDist(x, y, valid_moves[i], player_pos)
         IN  IF min_dist < 0 \/ dist < min_dist
             THEN GhostBestMove(x, y, valid_moves, player_pos, i + 1, valid_moves[i], dist)
             ELSE GhostBestMove(x, y, valid_moves, player_pos, i + 1, best_move, min_dist)

\* what move does from (x0, y0) with direction0 once valid_moves is known, and
\* whether the ghost then stands on the player's cell
GhostChoice(x0, y0, direction0, valid_moves, player_pos) ==
    LET direction == IF valid_moves # <<>>
                     THEN GhostBestMove(x0, y0, valid_moves, player_pos, 1, direction0, -1)
                     ELSE direction0
        x == x0 + Delta(direction)[1]
        y == y0 + Delta(direction)[2]
    IN  [direction |-> direction, x |-> x, y |-> y, caught |-> <<x, y>> = player_pos]

GhostInit ==
    /\ gh_start \in ghost_start_pos
    /\ gh_x = gh_start[1]
    /\ gh_y = gh_start[2]
    /\ gh_direction \in {"UP", "DOWN", "LEFT", "RIGHT"}
    /\ gh_pc = "playing"
    /\ gh_reads = {}

\* the ghost of a game_loop that has not been started
GhostIdle ==
    /\ gh_start = <<0, 0>>
    /\ gh_x = 0
    /\ gh_y = 0
    /\ gh_direction = "UP"
    /\ gh_pc = "idle"
    /\ gh_reads = {}

\* one move tick for the ghost: ghost.move(MAZE, (player.x, player.y)) for a
\* player on any cell, then the collision check, which puts the ghost back on
\* its start cell when it stands on the player's cell
GhostMove ==
    /\ launched = "Pac-Man"
    /\ gh_pc = "playing"
    /\ LET options == GhostOptions(gh_direction)
           probes == [i \in 1..Len(options) |-> GhostProbe(gh_x, gh_y, options[i])]
           raising == {i \in 1..Len(options) : MazeRaises(probes[i][1], probes[i][2])}
           valid_moves ==
               SelectSeq(options, LAMBDA m : MazeAt(GhostProbe(gh_x, gh_y, m)[1],
                                                    GhostProbe(gh_x, gh_y, m)[2]) # "#")
       IN  IF raising # {}
           THEN /\ gh_pc' = "IndexError"
                /\ gh_reads' = {probes[i] : i \in {j \in 1..Len(options) :
                                                       \A k \in raising : j <= k}}
                /\ UNCHANGED <<gh_x, gh_y, gh_direction>>
           ELSE \E o \in {GhostChoice(gh_x, gh_y, gh_direction, valid_moves, player_pos) :
                              player_pos \in PlayerCells} :
                    /\ gh_direction' = o.direction
                    /\ gh_reads' = {probes[i] : i \in 1..Len(options)}
                    /\ IF o.caught
                       THEN gh_x' = gh_start[1] /\ gh_y' = gh_start[2]
                       ELSE gh_x' = o.x /\ gh_y' = o.y
                    /\ gh_pc' = "playing"
    /\ UNCHANGED <<gh_start, notGhost>>

\* another ghost has caught the player, or the player has chosen 'Play Again':
\* g.x, g.y = ghost_start_pos[i]
GhostReset ==
    /\ launched = "Pac-Man"
    /\ gh_pc = "playing"
    /\ gh_x' = gh_start[1]
    /\ gh_y' = gh_start[2]
    /\ UNCHANGED <<gh_start, gh_direction, gh_pc, gh_reads, notGhost>>

GhostNext == GhostMove \/ GhostReset

(***************************************************************************)
(* Frogger (frogger.py): the Frog object and game_loop for one level.  The *)
(* obstacles and floaters move on their own; a frame is given the floater  *)
(* or obstacle the frog's rectangle meets, which the positions they can    *)
(* take allow (x between -width and SCREEN_WIDTH, in the lane of the same  *)
(* y as the rectangle).                                                    *)
(***************************************************************************)
SCREEN_WIDTH == 800

SCREEN_HEIGHT == 600

FROG_SIZE == 40

LANE_HEIGHT == 50

NUM_ROAD_LANES == 5

NUM_RIVER_LANES == 5

LOG_SPEED_MIN == 2

LOG_SPEED_MAX == 5

FROG_LIVES == 3

SAFE_ZONE_TOP == SCREEN_HEIGHT - LANE_HEIGHT

ROAD_TOP == SAFE_ZONE_TOP - (LANE_HEIGHT * NUM_ROAD_LANES)

RIVER_TOP == ROAD_TOP - (LANE_HEIGHT * NUM_RIVER_LANES)

FROG_SPEED == LANE_HEIGHT

\* the frog is followed down to this y below the screen
FrogMaxY == 650

\* the levels game_loop is run for (run_game starts with level 1)
FrogLevels == 1

\* at most this many events are delivered to one frame
FrogMaxEvents == 1

\* the largest width of the level's floater class (Log, Rock, Baggage, Buoy, Cloud)
FloaterWidth == <<150, 100, 80, 30, 200>>

\* the largest width of the level's obstacle class (Car, Boulder, Airplane, Boat, Bird)
ObstacleWidth == <<100, 60, 120, 100, 40>>

\* Frog.reset: position and rectangle at the start cell
FrogReset == [x |-> SCREEN_WIDTH \div 2 - FROG_SIZE \div 2,
              y |-> SAFE_ZONE_TOP + (LANE_HEIGHT - FROG_SIZE) \div 2,
              rect |-> <<SCREEN_WIDTH \div 2 - FROG_SIZE \div 2,
                         SAFE_ZONE_TOP + (LANE_HEIGHT - FROG_SIZE) \div 2>>]

\* Frog.move: the rectangle is placed before x is clamped
FrogMove(frog, dx, dy) ==
    LET x == frog.x + dx
        y == frog.y + dy
    IN  [x |-> IF x < 0 THEN 0
               ELSE IF x > SCREEN_WIDTH - FROG_SIZE THEN SCREEN_WIDTH - FROG_SIZE ELSE x,
         y |-> y,
         rect |-> <<x, y>>]

\* the event loop of one frame from event i on: the frog after it and the status
\* game_loop returns with, "playing" if it does not return
RECURSIVE FrogEvents(_, _, _)
FrogEvents(frog, events, i) ==
    IF i > Len(events) THEN [frog |-> frog, status |-> "playing"]
    ELSE CASE events[i] \in {"QUIT", "P_quit"} -> [frog |-> frog, status |-> "quit"]
           [] events[i] = "UP" ->
                  LET moved == FrogMove(frog, 0, -FROG_SPEED)
                  IN  IF moved.y < RIVER_TOP
                      THEN [frog |-> moved, status |-> "next_level"]
                      ELSE FrogEvents(moved, events, i + 1)
           [] events[i] = "DOWN" -> FrogEvents(FrogMove(frog, 0, FROG_SPEED), events, i + 1)
           [] events[i] = "LEFT" -> FrogEvents(FrogMove(frog, -FROG_SPEED, 0), events, i + 1)
           [] events[i] = "RIGHT" -> FrogEvents(FrogMove(frog, FROG_SPEED, 0), events, i + 1)
           [] OTHER -> FrogEvents(frog, events, i + 1)

\* some position of a floater or obstacle of this width overlaps rect in x
CanMeet(rect, width) == rect[1] < SCREEN_WIDTH + width /\ -width < rect[1] + FROG_SIZE

\* floater.speed * floater.direction of the floaters the frog's rectangle can
\* collide with: those of the lanes at the rectangle's y; 0 stands for no floater
Carriers(frog, level) ==
    {0} \cup
    {speed * (IF lane % 2 = 1 THEN 1 ELSE -1) :
        speed \in (LOG_SPEED_MIN + level)..(LOG_SPEED_MAX + level),
        lane \in {i \in 0..(NUM_RIVER_LANES - 1) :
                     LET y == RIVER_TOP + i * LANE_HEIGHT + (LANE_HEIGHT - FROG_SIZE) \div 2
                     IN  /\ frog.rect[2] < y + FROG_SIZE /\ y < frog.rect[2] + FROG_SIZE
                         /\ CanMeet(frog.rect, FloaterWidth[level])}}

\* frog.rect.colliderect is called with the frog in this state: how far the
\* rectangle then is from the frog's position
Evaluated(frog) == [evaluated |-> TRUE, off |-> <<frog.rect[1] - frog.x, frog.rect[2] - frog.y>>]

NotEvaluated == [evaluated |-> FALSE, off |-> <<0, 0>>]

FrogInit ==
    /\ frog_level \in 1..FrogLevels
    /\ frog_x = FrogReset.x
    /\ frog_y = FrogReset.y
    /\ frog_rect = FrogReset.rect
    /\ frog_lives = FROG_LIVES
    /\ frog_pc = "playing"
    /\ frog_coll = NotEvaluated

\* no game_loop of Frogger is running
FrogIdle ==
    /\ frog_level = 0
    /\ frog_x = FrogReset.x
    /\ frog_y = FrogReset.y
    /\ frog_rect = FrogReset.rect
    /\ frog_lives = FROG_LIVES
    /\ frog_pc = "idle"
    /\ frog_coll = NotEvaluated

\* one frame of game_loop for a frog with `lives`: the events, then the floater
\* logic when frog.y is in the river (the frog moves by carry with the floater it
\* meets, carry = 0: it meets none), then the obstacle collisions when frog.y is
\* on the road.  The result is the frog, its lives, the status and the
\* colliderect calls of the frame; possible = FALSE when no floater or obstacle
\* can be where carry and hit put them
FrogStep(frog, lives, level, events, carry, hit) ==
    LET ev == FrogEvents(frog, events, 1)
        f1 == ev.frog
        in_river == RIVER_TOP <= f1.y /\ f1.y < ROAD_TOP
        on_log == carry # 0
        dies2 == in_river /\ ~on_log
        f2 == IF ~in_river THEN f1
              ELSE IF on_log
              THEN [x |-> f1.x + carry, y |-> f1.y, rect |-> <<f1.x + carry, f1.rect[2]>>]
              ELSE FrogReset
        on_road == ROAD_TOP <= f2.y /\ f2.y < SAFE_ZONE_TOP
        dies3 == on_road /\ hit
        lives2 == IF dies2 THEN lives - 1 ELSE lives
        lives3 == IF dies3 THEN lives2 - 1 ELSE lives2
    IN  IF ev.status # "playing"
        THEN [possible |-> ~on_log /\ ~hit, frog |-> f1, lives |-> lives,
              status |-> ev.status, coll |-> NotEvaluated]
        ELSE IF dies2 /\ lives2 <= 0
        THEN [possible |-> ~hit, frog |-> f1, lives |-> lives2,
              status |-> "game_over", coll |-> Evaluated(f1)]
        ELSE [possible |-> /\ on_log => in_river /\ carry \in Carriers(f1, level)
                           /\ hit => on_road /\ CanMeet(f2.rect, ObstacleWidth[level]),
              frog |-> IF dies3 /\ lives3 > 0 THEN FrogReset ELSE f2,
              lives |-> lives3,
              status |-> IF dies3 /\ lives3 <= 0 THEN "game_over" ELSE "playing",
              coll |-> IF on_road THEN Evaluated(f2)
                       ELSE IF in_river THEN Evaluated(f1) ELSE NotEvaluated]

\* the inputs of a frame: the events (keys, window close, P with the choice of the
\* pause menu), floater.speed * floater.direction or 0, and hit
FrogInputs(level) ==
    (UNION {[1..n -> {"UP", "DOWN", "LEFT", "RIGHT", "QUIT", "P_quit", "P_resume"}] :
               n \in 0..FrogMaxEvents})
        \X (-(LOG_SPEED_MAX + level)..(LOG_SPEED_MAX + level)) \X BOOLEAN

\* one frame of game_loop, for any events and any floaters and obstacles
FrogFrame ==
    /\ launched = "Frogger"
    /\ frog_pc = "playing"
    /\ \E r \in {FrogStep([x |-> frog_x, y |-> frog_y, rect |-> frog_rect], frog_lives,
                          frog_level, in[1], in[2], in[3]) : in \in FrogInputs(frog_level)} :
           /\ r.possible
           /\ r.frog.y <= FrogMaxY
           /\ frog_x' = r.frog.x
           /\ frog_y' = r.frog.y
           /\ frog_rect' = r.frog.rect
           /\ frog_lives' = r.lives
           /\ frog_pc' = r.status
           /\ frog_coll' = r.coll
    /\ UNCHANGED <<frog_level, notFrog>>

(***************************************************************************)
(* Tetris (tetris_game.py): a TetrisGame object under any sequence of      *)
(* move, rotate, drop and hard_drop calls.  The board is scaled down; a    *)
(* cell holds the colour of the piece locked there, written as the name of *)
(* the piece type, or "None".  fall_speed_ms, which only sets the timing   *)
(* of the drop calls, is left out.                                         *)
(***************************************************************************)
\* the board's size (10 x 20 in the source)
COLS == 4

ROWS == 5

\* lock_piece is followed this many times
TetMaxLocks == 2

SCORE_MAP == <<40, 100, 300, 1200>>

TETROMINOES ==
    [I |-> <<<<0, -1>>, <<0, 0>>, <<0, 1>>, <<0, 2>>>>,
     O |-> <<<<0, 0>>, <<1, 0>>, <<0, 1>>, <<1, 1>>>>,
     T |-> <<<<-1, 0>>, <<0, 0>>, <<1, 0>>, <<0, 1>>>>,
     S |-> <<<<-1, 1>>, <<0, 1>>, <<0, 0>>, <<1, 0>>>>,
     Z |-> <<<<-1, 0>>, <<0, 0>>, <<0, 1>>, <<1, 1>>>>,
     J |-> <<<<-1, -1>>, <<-1, 0>>, <<0, 0>>, <<1, 0>>>>,
     L |-> <<<<1, -1>>, <<-1, 0>>, <<0, 0>>, <<1, 0>>>>]

EmptyRow == [c \in 1..COLS |-> "None"]

\* new_piece with random.choice giving piece_type
new_piece(piece_type) ==
    [shape |-> TETROMINOES[piece_type],
     color |-> piece_type,
     x |-> COLS \div 2,
     y |-> IF piece_type \in {"I", "J", "L"} THEN 1 ELSE 0]

check_collision_no_board(board, shape, pos) ==
    \E i \in 1..Len(shape) :
        LET board_x == pos[1] + shape[i][1]
            board_y == pos[2] + shape[i][2]
        IN  ~(0 <= board_x /\ board_x < COLS /\ 0 <= board_y /\ board_y < ROWS)

check_collision(board, shape, pos) ==
    \E i \in 1..Len(shape) :
        LET board_x == pos[1] + shape[i][1]
            board_y == pos[2] + shape[i][2]
        IN  ~(/\ 0 <= board_x /\ board_x < COLS
              /\ 0 <= board_y /\ board_y < ROWS
              /\ board[board_y + 1][board_x + 1] = "None")

\* the loop of lock_piece from cell i on: the cells with 0 <= board_y < ROWS
\* take the piece's colour
RECURSIVE LockCells(_, _, _)
LockCells(board, piece, i) ==
    IF i > Len(piece.shape) THEN board
    ELSE LET board_x == piece.x + piece.shape[i][1]
             board_y == piece.y + piece.shape[i][2]
         IN  LockCells(IF 0 <= board_y /\ board_y < ROWS
                       THEN [board EXCEPT ![board_y + 1][board_x + 1] = piece.color]
                       ELSE board,
                       piece, i + 1)

\* clear_lines with the empty rows appended at the bottom of the board
ClearLinesAppend(game) ==
    LET full_rows == {r \in 1..ROWS : \A c \in 1..COLS : game.board[r][c] # "None"}
        num_cleared == Cardinality(full_rows)
        kept == SelectSeq([r \in 1..ROWS |-> r], LAMBDA r : r \notin full_rows)
        total == game.lines_cleared_total + num_cleared
    IN  IF full_rows = {} THEN game
        ELSE [game EXCEPT
                 !.board = [r \in 1..ROWS |->
                               IF r > ROWS - num_cleared THEN EmptyRow
                               ELSE game.board[kept[r]]],
                 !.score = game.score
                           + (IF num_cleared \in DOMAIN SCORE_MAP
                              THEN SCORE_MAP[num_cleared] ELSE 0) * (game.level + 1),
                 !.lines_cleared_total = total,
                 !.level = total \div 10]

\* clear_lines: the full rows leave, as many empty rows enter at the top, and
\* score, lines_cleared_total and level follow
clear_lines(game) ==
    LET full_rows == {r \in 1..ROWS : \A c \in 1..COLS : game.board[r][c] # "None"}
        num_cleared == Cardinality(full_rows)
        kept == SelectSeq([r \in 1..ROWS |-> r], LAMBDA r : r \notin full_rows)
        total == game.lines_cleared_total + num_cleared
    IN  IF full_rows = {} THEN game
        ELSE [game EXCEPT
                 !.board = [r \in 1..ROWS |->
                               IF r <= num_cleared THEN EmptyRow
                               ELSE game.board[kept[r - num_cleared]]],
                 !.score = game.score
                           + (IF num_cleared \in DOMAIN SCORE_MAP
                              THEN SCORE_MAP[num_cleared] ELSE 0) * (game.level + 1),
                 !.lines_cleared_total = total,
                 !.level = total \div 10]

\* lock_piece, with piece_type the type new_piece draws for next_piece;
\* last_lock keeps the game as this call handed it to clear_lines
lock_piece(game, piece_type) ==
    LET filled == [game EXCEPT !.board = LockCells(game.board, game.current_piece, 1)]
        locked == clear_lines(filled)
        current == game.next_piece
    IN  [locked EXCEPT
            !.last_lock = [called |-> TRUE, board |-> filled.board,
                           lines_cleared_total |-> filled.lines_cleared_total],
            !.current_piece = current,
            !.next_piece = new_piece(piece_type),
            !.game_over = game.game_over
                          \/ check_collision(locked.board, current.shape,
                                             <<current.x, current.y>>)]

\* move: the game after the call and the value returned
move(game, dx, dy) ==
    LET new_x == game.current_piece.x + dx
        new_y == game.current_piece.y + dy
    IN  IF game.game_over THEN [game |-> game, moved |-> FALSE]
        ELSE IF ~check_collision(game.board, game.current_piece.shape, <<new_x, new_y>>)
        THEN [game |-> [game EXCEPT !.current_piece.x = new_x, !.current_piece.y = new_y],
              moved |-> TRUE]
        ELSE [game |-> game, moved |-> FALSE]

\* while self.move(0, 1): pass
RECURSIVE Fall(_)
Fall(game) == IF move(game, 0, 1).moved THEN Fall(move(game, 0, 1).game) ELSE game

hard_drop(game, piece_type) ==
    IF game.game_over THEN game ELSE lock_piece(Fall(game), piece_type)

drop(game, piece_type) ==
    IF move(game, 0, 1).moved THEN move(game, 0, 1).game ELSE lock_piece(game, piece_type)

rotate(game) ==
    LET shape == game.current_piece.shape
        rotated_shape == [i \in 1..Len(shape) |-> <<-shape[i][2], shape[i][1]>>]
    IN  IF game.game_over \/ game.current_piece.color = "O" THEN game
        ELSE IF ~check_collision(game.board, rotated_shape,
                                 <<game.current_piece.x, game.current_piece.y>>)
        THEN [game EXCEPT !.current_piece.shape = rotated_shape]
        ELSE game

\* TetrisGame(): an empty board and two random pieces
NewGame(current_type, next_type) ==
    [board |-> [r \in 1..ROWS |-> EmptyRow],
     score |-> 0,
     level |-> 0,
     lines_cleared_total |-> 0,
     game_over |-> FALSE,
     last_lock |-> [called |-> FALSE],
     current_piece |-> new_piece(current_type),
     next_piece |-> new_piece(next_type)]

TetInit ==
    /\ tet_game \in {NewGame(c, n) : c \in DOMAIN TETROMINOES, n \in DOMAIN TETROMINOES}
    /\ tet_locks = 0

\* no TetrisGame has been made
TetIdle ==
    /\ tet_game = [board |-> <<>>]
    /\ tet_locks = 0

\* the call locks the piece: drop or hard_drop on a piece that cannot fall further
Locks(game, call) ==
    \/ call = "hard_drop" /\ ~game.game_over
    \/ call = "drop" /\ ~move(game, 0, 1).moved

\* one call of a method of the game; piece_type is what random.choice returns
\* if the call makes a new piece
TetCall(call, piece_type) ==
    /\ launched = "Tetris"
    /\ Locks(tet_game, call) => tet_locks < TetMaxLocks
    /\ ~Locks(tet_game, call) => piece_type = "I"
    /\ tet_game' = CASE call = "left" -> move(tet_game, -1, 0).game
                     [] call = "right" -> move(tet_game, 1, 0).game
                     [] call = "down" -> move(tet_game, 0, 1).game
                     [] call = "rotate" -> rotate(tet_game)
                     [] call = "drop" -> drop(tet_game, piece_type)
                     [] call = "hard_drop" -> hard_drop(tet_game, piece_type)
    /\ tet_locks' = IF Locks(tet_game, call) THEN tet_locks + 1 ELSE tet_locks
    /\ UNCHANGED notTet

TetNext ==
    \E call \in {"left", "right", "down", "rotate", "drop", "hard_drop"},
       piece_type \in DOMAIN TETROMINOES : TetCall(call, piece_type)

(***************************************************************************)
(* Snake (snake_game.py): game_loop, one action per tick of its loop.  The *)
(* grid is scaled down.                                                    *)
(***************************************************************************)
\* the grid's size (30 x 30 in the source)
GRID_WIDTH == 5

GRID_HEIGHT == 5

\* the round is followed until the score reaches this value
SnakeMaxScore == 2

\* at most this many events are delivered to one tick
SnakeMaxEvents == 2

\* the event loop of one tick from event i on: change_to after it, "quit" if
\* game_loop returns from it; every key is tested against direction
RECURSIVE SnakeEvents(_, _, _, _)
SnakeEvents(direction, change_to, events, i) ==
    IF i > Len(events) THEN change_to
    ELSE CASE events[i] \in {"QUIT", "P_quit"} -> "quit"
           [] events[i] = "UP" /\ direction # "DOWN" -> SnakeEvents(direction, "UP", events, i + 1)
           [] events[i] = "DOWN" /\ direction # "UP" -> SnakeEvents(direction, "DOWN", events, i + 1)
           [] events[i] = "LEFT" /\ direction # "RIGHT" ->
                  SnakeEvents(direction, "LEFT", events, i + 1)
           [] events[i] = "RIGHT" /\ direction # "LEFT" ->
                  SnakeEvents(direction, "RIGHT", events, i + 1)
           [] OTHER -> SnakeEvents(direction, change_to, events, i + 1)

SnakeHitsSelfOnly(snake_pos, snake_body) ==
    \E i \in 2..Len(snake_body) : snake_pos = snake_body[i]

\* the game over conditions: the head outside the grid, or on a block of
\* snake_body[1:]
SnakeHits(snake_pos, snake_body) ==
    \/ ~(/\ 0 <= snake_pos[1] /\ snake_pos[1] < GRID_WIDTH
         /\ 0 <= snake_pos[2] /\ snake_pos[2] < GRID_HEIGHT)
    \/ \E i \in 2..Len(snake_body) : snake_pos = snake_body[i]

\* the cells random.randrange(1, GRID_WIDTH), random.randrange(1, GRID_HEIGHT)
FoodCells == (1..(GRID_WIDTH - 1)) \X (1..(GRID_HEIGHT - 1))

\* one tick after its event loop has left change_to: the snake moves, eats or
\* loses its last segment, and the game over conditions are tested
SnakeStep(snake_body, food_pos, score, change_to, new_food) ==
    LET snake_pos == <<snake_body[1][1] + (CASE change_to = "LEFT" -> -1
                                            [] change_to = "RIGHT" -> 1
                                            [] OTHER -> 0),
                       snake_body[1][2] + (CASE change_to = "UP" -> -1
                                            [] change_to = "DOWN" -> 1
                                            [] OTHER -> 0)>>
        eats == snake_pos = food_pos
        body == IF eats THEN <<snake_pos>> \o snake_body
                ELSE <<snake_pos>> \o SubSeq(snake_body, 1, Len(snake_body) - 1)
    IN  [snake_body |-> body,
         direction |-> change_to,
         food_pos |-> IF eats THEN new_food ELSE food_pos,
         score |-> IF eats THEN score + 1 ELSE score,
         pc |-> IF SnakeHits(snake_pos, body) THEN "game_over" ELSE "playing"]

SnakeInit ==
    /\ sn_pc = "playing"
    /\ sn_snake_body = <<<<GRID_WIDTH \div 2, GRID_HEIGHT \div 2>>,
                         <<GRID_WIDTH \div 2 - 1, GRID_HEIGHT \div 2>>,
                         <<GRID_WIDTH \div 2 - 2, GRID_HEIGHT \div 2>>>>
    /\ sn_direction = "RIGHT"
    /\ sn_food_pos \in FoodCells
    /\ sn_score = 0

\* no game_loop of Snake is running
SnakeIdle ==
    /\ sn_pc = "idle"
    /\ sn_snake_body = <<>>
    /\ sn_direction = "RIGHT"
    /\ sn_food_pos = <<1, 1>>
    /\ sn_score = 0

\* the window is closed or 'quit' is chosen in the pause menu: game_loop returns
\* from its event loop
SnakeQuit ==
    /\ launched = "Snake"
    /\ sn_pc = "playing"
    /\ sn_pc' = "game_over"
    /\ UNCHANGED <<sn_snake_body, sn_direction, sn_food_pos, sn_score, notSnake>>

\* one tick of game_loop, for any events that do not end the loop and any new food
SnakeTick ==
    /\ launched = "Snake"
    /\ sn_pc = "playing"
    /\ \E r \in {SnakeStep(sn_snake_body, sn_food_pos, sn_score, change_to, new_food) :
                    change_to \in {SnakeEvents(sn_direction, sn_direction, events, 1) :
                                      events \in UNION {[1..n -> {"UP", "DOWN", "LEFT", "RIGHT"}] :
                                                           n \in 0..SnakeMaxEvents}},
                    new_food \in FoodCells} :
           /\ r.score <= SnakeMaxScore
           /\ sn_snake_body' = r.snake_body
           /\ sn_direction' = r.direction
           /\ sn_food_pos' = r.food_pos
           /\ sn_score' = r.score
           /\ sn_pc' = r.pc
    /\ UNCHANGED notSnake

(***************************************************************************)
(* Flappy Bird (flappy_bird.py): run_game, each frame of its loop in two   *)
(* steps, the event loop and the update.  A rectangle is its topleft; the  *)
(* bird is 34 x 24, a pipe 52 x 320.  bird_movement is kept in quarters of *)
(* a pixel (GRAVITY = 0.25 is one quarter) and the score in halves.        *)
(***************************************************************************)
FLAPPY_SCREEN_WIDTH == 288

FLAPPY_SCREEN_HEIGHT == 512

\* GRAVITY, in quarters of a pixel
GRAVITY_QUARTERS == 1

pipe_height == {200, 300, 400}

\* the bird flaps at most this many times
FlMaxFlaps == 1

\* at most this many SPAWNPIPE events arrive
FlMaxSpawns == 1

\* at most this many events are delivered to one frame
FlMaxEvents == 1

\* int(bird_movement): truncation towards zero
IntOfQuarters(m) == IF m >= 0 THEN m \div 4 ELSE -((-m) \div 4)

colliderect(bird_rect, pipe) ==
    /\ bird_rect[1] < pipe[1] + 52 /\ pipe[1] < bird_rect[1] + 34
    /\ bird_rect[2] < pipe[2] + 320 /\ pipe[2] < bird_rect[2] + 24

\* check_collision: False on a pipe or outside -10 < top, bottom < SCREEN_HEIGHT - 100
flappy_check_collision(pipes, bird_rect) ==
    /\ \A i \in 1..Len(pipes) : ~colliderect(bird_rect, pipes[i])
    /\ ~(bird_rect[2] <= -10 \/ bird_rect[2] + 24 >= FLAPPY_SCREEN_HEIGHT - 100)

\* move_pipes: centerx -= 2, and the pipes with right > -10 stay
move_pipes(pipes) ==
    SelectSeq([i \in 1..Len(pipes) |-> <<pipes[i][1] - 2, pipes[i][2]>>],
              LAMBDA pipe : pipe[1] + 52 > -10)

\* the state run_game starts its loop with, high_score read from the score file
FlStart(high_score) ==
    [bird_rect |-> <<65, FLAPPY_SCREEN_HEIGHT \div 2 - 50>>,
     bird_movement |-> 0,
     game_active |-> TRUE,
     score |-> 0,
     high_score |-> high_score,
     pipe_list |-> <<>>,
     flaps |-> 0,
     spawned |-> 0,
     restarted |-> FALSE,
     pc |-> "events"]

\* the event loop of a frame from event i on
RECURSIVE FlHandle(_, _, _)
FlHandle(st, events, i) ==
    IF i > Len(events) THEN [st EXCEPT !.pc = "update"]
    ELSE CASE events[i].type \in {"QUIT", "ESCAPE"} ->
                  [st EXCEPT !.pc = "returned", !.restarted = FALSE]
           [] events[i].type = "SPACE" /\ st.game_active ->
                  FlHandle([st EXCEPT !.bird_movement = -6 * 4,
                                      !.flaps = st.flaps + 1,
                                      !.restarted = FALSE],
                           events, i + 1)
           [] events[i].type = "SPACE" /\ ~st.game_active ->
                  FlHandle([st EXCEPT !.game_active = TRUE,
                                      !.pipe_list = <<>>,
                                      \* bird_rect.center = (65, SCREEN_HEIGHT // 2 - 50)
                                      !.bird_rect = <<65 - 34 \div 2,
                                                      FLAPPY_SCREEN_HEIGHT \div 2 - 50 - 24 \div 2>>,
                                      !.bird_movement = 0,
                                      !.score = 0,
                                      !.restarted = TRUE],
                           events, i + 1)
           [] events[i].type = "SPAWNPIPE" ->
                  \* create_pipe with random_pipe_pos = events[i].pos
                  FlHandle([st EXCEPT !.pipe_list = st.pipe_list
                                          \o <<<<FLAPPY_SCREEN_WIDTH, events[i].pos>>,
                                               <<FLAPPY_SCREEN_WIDTH, events[i].pos - 450>>>>,
                                      !.spawned = st.spawned + 1,
                                      !.restarted = FALSE],
                           events, i + 1)

\* the rest of the frame while game_active
FlActive(st) ==
    LET bird_movement == st.bird_movement + GRAVITY_QUARTERS
        bird_rect == <<st.bird_rect[1], st.bird_rect[2] + IntOfQuarters(bird_movement)>>
        pipes == move_pipes(st.pipe_list)
        passed == {i \in 1..Len(pipes) : pipes[i][1] + 52 \div 2 = bird_rect[1] + 34 \div 2}
    IN  [st EXCEPT !.bird_movement = bird_movement,
                   !.bird_rect = bird_rect,
                   !.pipe_list = pipes,
                   !.game_active = flappy_check_collision(pipes, bird_rect),
                   !.score = st.score + Cardinality(passed),
                   !.restarted = FALSE,
                   !.pc = "events"]

\* update_score
update_score(score, high_score) == IF score > high_score THEN score ELSE high_score

FlState ==
    [bird_rect |-> fl_bird_rect, bird_movement |-> fl_bird_movement,
     game_active |-> fl_game_active, score |-> fl_score, high_score |-> fl_high_score,
     pipe_list |-> fl_pipe_list, flaps |-> fl_flaps, spawned |-> fl_spawned,
     restarted |-> fl_restarted, pc |-> fl_pc]

FlIs(st) ==
    /\ fl_bird_rect = st.bird_rect
    /\ fl_bird_movement = st.bird_movement
    /\ fl_game_active = st.game_active
    /\ fl_score = st.score
    /\ fl_high_score = st.high_score
    /\ fl_pipe_list = st.pipe_list
    /\ fl_flaps = st.flaps
    /\ fl_spawned = st.spawned
    /\ fl_restarted = st.restarted
    /\ fl_pc = st.pc

FlInit == FlIs(FlStart(DictGet(load_scores(score_file), "Flappy Bird", PyInt(0)).v))

\* run_game of Flappy Bird has not been called
FlIdle == FlIs([FlStart(0) EXCEPT !.pc = "idle"])

FlBecomes(st) ==
    /\ fl_bird_rect' = st.bird_rect
    /\ fl_bird_movement' = st.bird_movement
    /\ fl_game_active' = st.game_active
    /\ fl_score' = st.score
    /\ fl_high_score' = st.high_score
    /\ fl_pipe_list' = st.pipe_list
    /\ fl_flaps' = st.flaps
    /\ fl_spawned' = st.spawned
    /\ fl_restarted' = st.restarted
    /\ fl_pc' = st.pc

\* the event loop of one frame
FlEvents(events) ==
    /\ launched = "Flappy Bird"
    /\ fl_pc = "events"
    /\ LET st == FlHandle(FlState, events, 1)
       IN  /\ st.flaps <= FlMaxFlaps
           /\ st.spawned <= FlMaxSpawns
           /\ FlBecomes(st)
    /\ UNCHANGED <<score_file, notFlappy>>

\* the rest of the frame: bird, pipes, collision and score while game_active,
\* else the high score is updated and saved
FlUpdate ==
    /\ launched = "Flappy Bird"
    /\ fl_pc = "update"
    /\ IF fl_game_active
       THEN /\ FlBecomes(FlActive(FlState))
            /\ UNCHANGED score_file
       ELSE LET high_score == update_score(fl_score, fl_high_score)
            IN  /\ FlBecomes([FlState EXCEPT !.high_score = high_score,
                                            !.restarted = FALSE,
                                            !.pc = "events"])
                /\ score_file' = save_score(score_file, "Flappy Bird",
                                            IF high_score = 0 THEN PyInt(0)
                                            ELSE PyFloat2(high_score))
    /\ UNCHANGED notFlappy

FlNext ==
    \/ \E n \in 0..FlMaxEvents :
           \E events \in [1..n -> [type : {"SPACE", "ESCAPE", "QUIT"}, pos : {0}]
                                    \cup [type : {"SPAWNPIPE"}, pos : pipe_height]] :
               FlEvents(events)
    \/ FlUpdate

(***************************************************************************)
(* Pac-Man (pacman.py): game_loop with its player, its four ghosts and the *)
(* pellets, one frame at a time, the end screen and the restart included.  *)
(* pac_game holds the locals of game_loop; keys counts the arrow keys      *)
(* pressed so far and restarted says that the frame just run ended with    *)
(* 'Play Again'.  A ghost whose move raised has direction "IndexError".    *)
(***************************************************************************)
move_interval == 8

\* at most this many arrow keys are pressed
PacMaxKeys == 1

\* ghost_start_pos as the list the comprehension builds, row by row
ghost_start_list ==
    SelectSeq([i \in 1..(Len(MAZE) * Len(MAZE[1])) |->
                   <<(i - 1) % Len(MAZE[1]), (i - 1) \div Len(MAZE[1])>>],
              LAMBDA c : c \in ghost_start_pos)

\* the cells of the maze that hold char
MazeItems(char) == {c \in MazeCells : MazeAt(c[2], c[1]) = char}

\* the locals of game_loop before its first frame, the ghosts with the
\* directions their constructors have drawn
PacStart(directions) ==
    [pc |-> "playing",
     player |-> player_start_pos,
     d |-> <<0, 0>>,
     ghosts |-> [i \in 1..4 |-> [x |-> ghost_start_list[i][1],
                                 y |-> ghost_start_list[i][2],
                                 direction |-> directions[i]]],
     pellets |-> MazeItems("."),
     power_pellets |-> MazeItems("o"),
     score |-> 0,
     lives |-> START_LIVES,
     game_over |-> FALSE,
     move_timer |-> 0,
     keys |-> 0,
     restarted |-> FALSE]

\* ghost.move(MAZE, player_pos)
PacGhostMove(g, player_pos) ==
    LET options == GhostOptions(g.direction)
        valid_moves ==
            SelectSeq(options, LAMBDA m : MazeAt(GhostProbe(g.x, g.y, m)[1],
                                                 GhostProbe(g.x, g.y, m)[2]) # "#")
        o == GhostChoice(g.x, g.y, g.direction, valid_moves, player_pos)
    IN  IF \E i \in 1..Len(options) : MazeRaises(GhostProbe(g.x, g.y, options[i])[1],
                                                 GhostProbe(g.x, g.y, options[i])[2])
        THEN [g EXCEPT !.direction = "IndexError"]
        ELSE [x |-> o.x, y |-> o.y, direction |-> o.direction]

\* the ghost collision loop from ghost i on
RECURSIVE PacCollide(_, _)
PacCollide(st, i) ==
    IF i > Len(st.ghosts) THEN st
    ELSE IF st.player # <<st.ghosts[i].x, st.ghosts[i].y>> THEN PacCollide(st, i + 1)
    ELSE IF st.lives - 1 <= 0
         THEN PacCollide([st EXCEPT !.lives = st.lives - 1, !.game_over = TRUE], i + 1)
         ELSE PacCollide([st EXCEPT !.lives = st.lives - 1,
                                    !.player = player_start_pos,
                                    !.ghosts = [j \in 1..4 |->
                                                   [st.ghosts[j] EXCEPT
                                                       !.x = ghost_start_list[j][1],
                                                       !.y = ghost_start_list[j][2]]]],
                         i + 1)

\* one frame of game_loop: key is the event of the frame ("none": no event),
\* end_choice what end_screen returns if the frame ends the game
PacFrame(st, key, end_choice) ==
    LET d == IF key \in {"UP", "DOWN", "LEFT", "RIGHT"} THEN Delta(key) ELSE st.d
        tick == st.move_timer + 1 >= move_interval
        new == <<st.player[1] + d[1], st.player[2] + d[2]>>
        player == IF tick /\ new \in MazeCells /\ MazeAt(new[2], new[1]) # "#"
                  THEN new ELSE st.player
        ghosts == IF tick THEN [i \in 1..4 |-> PacGhostMove(st.ghosts[i], player)]
                  ELSE st.ghosts
        moved == [st EXCEPT !.d = d,
                            !.keys = IF key \in {"UP", "DOWN", "LEFT", "RIGHT"}
                                    THEN st.keys + 1 ELSE st.keys,
                            !.move_timer = IF tick THEN 0 ELSE st.move_timer + 1,
                            !.player = player,
                            !.ghosts = ghosts,
                            !.pellets = st.pellets \ {player},
                            !.power_pellets = st.power_pellets \ {player},
                            !.score = st.score + (IF player \in st.pellets THEN 10 ELSE 0)
                                               + (IF player \in st.power_pellets THEN 50 ELSE 0),
                            !.restarted = FALSE]
        hit == PacCollide(moved, 1)
        game_over == hit.game_over \/ (hit.pellets = {} /\ hit.power_pellets = {})
    IN  IF key = "QUIT" THEN [st EXCEPT !.pc = "returned", !.restarted = FALSE]
        ELSE IF \E i \in 1..4 : ghosts[i].direction = "IndexError"
        THEN [moved EXCEPT !.pc = "IndexError"]
        ELSE IF ~game_over THEN hit
        ELSE IF end_choice = "quit" THEN [hit EXCEPT !.game_over = TRUE, !.pc = "returned"]
        ELSE [hit EXCEPT !.player = player_start_pos,
                         !.ghosts = [j \in 1..4 |-> [hit.ghosts[j] EXCEPT
                                                        !.x = ghost_start_list[j][1],
                                                        !.y = ghost_start_list[j][2]]],
                         !.pellets = MazeItems("."),
                         !.power_pellets = MazeItems("o"),
                         !.score = 0,
                         !.lives = START_LIVES,
                         !.game_over = FALSE,
                         !.restarted = TRUE]

PacInit == pac_game \in {PacStart(ds) : ds \in [1..4 -> {"UP", "DOWN", "LEFT", "RIGHT"}]}

\* game_loop of Pac-Man has not been called
PacIdle == pac_game = [pc |-> "idle"]

PacNext ==
    /\ launched = "Pac-Man"
    /\ pac_game.pc = "playing"
    /\ \E key \in {"none", "UP", "DOWN", "LEFT", "RIGHT", "QUIT"},
          c \in {"quit", "play_again"} :
           /\ key \in {"UP", "DOWN", "LEFT", "RIGHT"} => pac_game.keys < PacMaxKeys
           /\ pac_game' = PacFrame(pac_game, key, c)
    /\ UNCHANGED notPac

(***************************************************************************)
(* Minesweeper (minesweeper.py): run_game, game_loop one frame at a time   *)
(* with its two event polls, create_board and reveal_cells.  ms_game holds *)
(* run_game's current_level and the locals of the running game_loop: the  *)
(* board as the sets of cells that are mines, revealed and flagged.  call  *)
(* records the reveal_cells call of the frame just run, last the return of *)
(* game_loop in the frame just run.  Every level is played on a grid of    *)
(* MsGridSize with MsNumMines mines.                                       *)
(***************************************************************************)
MsGridSize == 3

MsNumMines == 1

\* at most this many cells carry a flag at a time: in a game_loop on its own,
\* and in the game_loop calls of run_game
MsMaxFlags == 2

MsRunMaxFlags == 0

LEVEL_CONFIGS == [level \in 1..5 |-> [grid_size |-> MsGridSize, num_mines |-> MsNumMines]]

\* create_board: the adjacent_mines of cell c, which stays 0 for a mine
adjacent_mines(mines, c) ==
    IF c \in mines THEN 0
    ELSE Cardinality({m \in mines : Abs(m[1] - c[1]) <= 1 /\ Abs(m[2] - c[2]) <= 1})

\* reveal_cells(board, x, y, grid_size): the board afterwards; RevealNeighbours is
\* its loop over dx, dy from the k-th pair on (k = 3 * (dx + 1) + (dy + 1))
RECURSIVE reveal_cells(_, _, _, _), RevealNeighbours(_, _, _, _, _)
\* reveal_cells without the is_flagged test
RevealFlagged(board, x, y, grid_size) ==
    IF ~(0 <= x /\ x < grid_size /\ 0 <= y /\ y < grid_size) THEN board
    ELSE IF <<x, y>> \in board.revealed THEN board
    ELSE LET marked == [board EXCEPT !.revealed = board.revealed \cup {<<x, y>>}]
         IN  IF adjacent_mines(board.mines, <<x, y>>) = 0 /\ <<x, y>> \notin board.mines
             THEN RevealNeighbours(marked, x, y, grid_size, 0)
             ELSE marked

reveal_cells(board, x, y, grid_size) ==
    IF ~(0 <= x /\ x < grid_size /\ 0 <= y /\ y < grid_size) THEN board
    ELSE IF <<x, y>> \in board.revealed \/ <<x, y>> \in board.flagged THEN board
    ELSE LET marked == [board EXCEPT !.revealed = board.revealed \cup {<<x, y>>}]
         IN  IF adjacent_mines(board.mines, <<x, y>>) = 0 /\ <<x, y>> \notin board.mines
             THEN RevealNeighbours(marked, x, y, grid_size, 0)
             ELSE marked

RevealNeighbours(board, x, y, grid_size, k) ==
    IF k > 8 THEN board
    ELSE IF k = 4 THEN RevealNeighbours(board, x, y, grid_size, k + 1)
    ELSE RevealNeighbours(reveal_cells(board, x + (k \div 3) - 1, y + (k % 3) - 1, grid_size),
                          x, y, grid_size, k + 1)

\* the state in which game_loop(level) starts its loop on a board with these mines
MsNewGame(level, mines) ==
    [pc |-> "playing", level |-> level, mines |-> mines, revealed |-> {}, flagged |-> {},
     game_over |-> FALSE, game_won |-> FALSE,
     call |-> [made |-> FALSE], last |-> [outcome |-> "none"]]

\* one frame of game_loop: e1 is the event of the first poll, e2 the event of the
\* poll after the drawing ("none": no event); last.outcome is what game_loop
\* returns in this frame, "none" if it does not return
MsFrame(st, e1, e2) ==
    LET n == LEVEL_CONFIGS[st.level].grid_size
        over == st.game_over \/ st.game_won
        ret1 == IF e1.type = "QUIT" THEN "quit"
                ELSE IF e1.type = "K_r" /\ over THEN "restart"
                ELSE IF e1.type = "K_q" /\ over THEN "quit"
                ELSE "none"
        board == [mines |-> st.mines, revealed |-> st.revealed, flagged |-> st.flagged]
        left == e1.type = "left" /\ ~over
        right == e1.type = "right" /\ ~over
        shown == IF left THEN reveal_cells(board, e1.pos[1], e1.pos[2], n).revealed
                 ELSE st.revealed
        game_over == st.game_over \/ (left /\ e1.pos \in st.mines)
        revealed == IF left /\ e1.pos \in st.mines THEN shown \cup st.mines ELSE shown
        flagged == IF right /\ e1.pos \notin st.revealed
                   THEN (st.flagged \ {e1.pos}) \cup ({e1.pos} \ st.flagged)
                   ELSE st.flagged
        game_won == \/ st.game_won
                    \/ /\ ~game_over
                       /\ Cardinality(revealed) = n * n - LEVEL_CONFIGS[st.level].num_mines
        ret2 == IF game_over
                THEN CASE e2 \in {"K_r", "click_restart"} -> "game_over"
                       [] e2 \in {"K_q", "click_quit"} -> "quit"
                       [] OTHER -> "none"
                ELSE IF game_won
                THEN CASE e2 \in {"K_r", "click_restart"} -> "win"
                       [] e2 \in {"K_q", "click_quit"} -> "quit"
                       [] OTHER -> "none"
                ELSE "none"
    IN  IF ret1 # "none"
        THEN [st EXCEPT !.call = [made |-> FALSE],
                        !.last = [outcome |-> ret1, level |-> st.level, won |-> st.game_won,
                                  poll |-> 1, key |-> e1.type]]
        ELSE [st EXCEPT !.revealed = revealed,
                        !.flagged = flagged,
                        !.game_over = game_over,
                        !.game_won = game_won,
                        !.call = IF left
                                 THEN [made |-> TRUE, pos |-> e1.pos, before |-> st.revealed,
                                       flagged |-> st.flagged, after |-> shown]
                                 ELSE [made |-> FALSE],
                        !.last = IF ret2 = "none" THEN [outcome |-> "none"]
                                 ELSE [outcome |-> ret2, level |-> st.level, won |-> game_won,
                                       poll |-> 2, key |-> e2]]

\* the boards create_board(grid_size, num_mines) can return, as their mines
MsBoards(level) ==
    {m \in SUBSET ((0..(LEVEL_CONFIGS[level].grid_size - 1))
                      \X (0..(LEVEL_CONFIGS[level].grid_size - 1))) :
        Cardinality(m) = LEVEL_CONFIGS[level].num_mines}

\* run_game after game_loop has returned: the states in which it calls
\* game_loop again, shows the main menu, or returns
MsRunGame(st) ==
    LET outcome == st.last.outcome
    IN  IF outcome = "win"
        THEN IF st.level + 1 > 5 THEN {[st EXCEPT !.pc = "menu"]}
             ELSE {[MsNewGame(st.level + 1, mines) EXCEPT !.last = st.last] :
                       mines \in MsBoards(st.level + 1)}
        ELSE IF outcome = "game_over" THEN {[st EXCEPT !.pc = "menu"]}
        ELSE IF outcome = "quit" THEN {[st EXCEPT !.pc = "returned"]}
        ELSE {[MsNewGame(st.level, mines) EXCEPT !.last = st.last] :
                  mines \in MsBoards(st.level)}

\* run_game of Minesweeper has not been called
MsIdle == ms_game = [pc |-> "idle"]

\* run_game shows the main menu
MsInit == ms_game = [MsNewGame(1, {}) EXCEPT !.pc = "menu"]

\* the events a poll of game_loop(level) can deliver first
MsEvents(level) ==
    [type : {"none", "QUIT", "K_r", "K_q"}, pos : {<<0, 0>>}]
        \cup [type : {"left", "right"},
              pos : (0..(LEVEL_CONFIGS[level].grid_size - 1))
                        \X (0..(LEVEL_CONFIGS[level].grid_size - 1))]

\* main_menu returns
MsMainMenu ==
    /\ launched = "Minesweeper"
    /\ ms_game.pc = "menu"
    /\ \/ ms_game' = [ms_game EXCEPT !.pc = "returned", !.last = [outcome |-> "none"],
                                     !.call = [made |-> FALSE]]
       \/ \E mines \in MsBoards(1) : ms_game' = MsNewGame(1, mines)
    /\ UNCHANGED notMs

\* one frame of game_loop and, when game_loop returns in it, run_game up to the
\* next game_loop call or menu
MsPlay ==
    /\ launched = "Minesweeper"
    /\ ms_game.pc = "playing"
    /\ \E st \in {MsFrame(ms_game, e1, e2) :
                      e1 \in MsEvents(ms_game.level),
                      e2 \in {"none", "K_r", "K_q", "click_restart", "click_quit"}} :
           /\ Cardinality(st.flagged) <= MsRunMaxFlags
           /\ IF st.last.outcome = "none" THEN ms_game' = st
              ELSE \E r \in MsRunGame(st) : ms_game' = r
    /\ UNCHANGED notMs

\* one frame of a game_loop call taken on its own, with the mouse as the only
\* source of events: the frames in which game_loop does not return
MsLoop ==
    /\ launched = "Minesweeper game_loop"
    /\ ms_game.pc = "playing"
    /\ \E st \in {MsFrame(ms_game, e1, "none") :
                      e1 \in {e \in MsEvents(ms_game.level) : e.type \in {"left", "right"}}} :
           /\ Cardinality(st.flagged) <= MsMaxFlags
           /\ ms_game' = st
    /\ UNCHANGED notMs

(***************************************************************************)
(* Tic-Tac-Toe (tic_tac_toe.py): the TicTacToeGame object under run, with  *)
(* its main menu, the frames of game_loop and the end screen.  The board   *)
(* is a 3 x 3 matrix of "X", "O" and "None", rows and columns counted from *)
(* 1.  click records the last MOUSEBUTTONDOWN that game_loop has handled   *)
(* since the last restart_game.                                            *)
(***************************************************************************)
BOARD_ROWS == 3

BOARD_COLS == 3

\* at most this many events are delivered to one frame of game_loop
TttMaxEvents == 1

\* restart_game
restart_game(game) ==
    [game EXCEPT !.board = [row \in 1..BOARD_ROWS |-> [col \in 1..BOARD_COLS |-> "None"]],
                 !.player = "X",
                 !.game_over = FALSE,
                 !.winner = "None",
                 !.click = [made |-> FALSE]]

\* mark_square with the test for an empty square dropped
MarkAnySquare(board, player, row, col) ==
    [ok |-> TRUE, board |-> [board EXCEPT ![row][col] = player]]

\* mark_square(row, col): its result and the board afterwards
mark_square(board, player, row, col) ==
    IF board[row][col] = "None"
    THEN [ok |-> TRUE, board |-> [board EXCEPT ![row][col] = player]]
    ELSE [ok |-> FALSE, board |-> board]

\* check_win without the test of the ascending diagonal
CheckWinNoAscending(board, player) ==
    \/ \E col \in 1..BOARD_COLS : \A row \in 1..3 : board[row][col] = player
    \/ \E row \in 1..BOARD_ROWS : \A col \in 1..3 : board[row][col] = player
    \/ board[1][1] = player /\ board[2][2] = player /\ board[3][3] = player

\* check_win()
check_win(board, player) ==
    \/ \E col \in 1..BOARD_COLS : \A row \in 1..3 : board[row][col] = player
    \/ \E row \in 1..BOARD_ROWS : \A col \in 1..3 : board[row][col] = player
    \/ board[3][1] = player /\ board[2][2] = player /\ board[1][3] = player
    \/ board[1][1] = player /\ board[2][2] = player /\ board[3][3] = player

\* is_board_full()
is_board_full(board) ==
    \A row \in 1..BOARD_ROWS, col \in 1..BOARD_COLS : board[row][col] # "None"

\* game_loop: the body of its event loop for one event
TttEvent(game, event) ==
    IF event.type = "QUIT" THEN [game EXCEPT !.state = "quit"]
    ELSE IF event.type = "MOUSEBUTTONDOWN"
    THEN IF game.game_over THEN game
         ELSE LET m == mark_square(game.board, game.player, event.row, event.col)
                  marked == [game EXCEPT !.board = m.board,
                                         !.click = [made |-> TRUE, ok |-> m.ok,
                                                    row |-> event.row, col |-> event.col,
                                                    before |-> game.board,
                                                    player |-> game.player]]
              IN  IF ~m.ok THEN marked
                  ELSE IF check_win(m.board, game.player)
                  THEN [marked EXCEPT !.winner = game.player, !.game_over = TRUE]
                  ELSE IF is_board_full(m.board) THEN [marked EXCEPT !.game_over = TRUE]
                  ELSE [marked EXCEPT !.player = IF game.player = "X" THEN "O" ELSE "X"]
    ELSE IF event.type = "K_r" THEN restart_game(game)
    ELSE IF event.type = "K_p" /\ event.choice = "quit" THEN [game EXCEPT !.state = "main_menu"]
    ELSE game

\* game_loop: the event loop of one frame from event i on; QUIT returns
RECURSIVE TttEvents(_, _, _)
TttEvents(game, events, i) ==
    IF i > Len(events) \/ game.state = "quit" THEN game
    ELSE TttEvents(TttEvent(game, events[i]), events, i + 1)

\* the object __init__ builds; pc is the loop that runs: "main_menu",
\* "game_loop", "end_screen", or "returned" once run has returned
TttInit ==
    ttt_game = restart_game([board |-> <<>>, player |-> "X", game_over |-> FALSE,
                             winner |-> "None", click |-> [made |-> FALSE],
                             state |-> "main_menu", pc |-> "main_menu"])

\* run_game of Tic-Tac-Toe has not been called
TttIdle == ttt_game = [pc |-> "idle"]

\* main_menu: QUIT, or a click on one of its buttons
TttMainMenu(action) ==
    /\ launched = "Tic-Tac-Toe"
    /\ ttt_game.pc = "main_menu"
    /\ ttt_game' = IF action = "play"
                   THEN [restart_game(ttt_game) EXCEPT !.state = "game_loop", !.pc = "game_loop"]
                   ELSE [ttt_game EXCEPT !.state = "quit", !.pc = "returned"]
    /\ UNCHANGED notTtt

\* one frame of game_loop: its events, then the end screen if game_over; run
\* moves on when the loop is left
TttFrame(events) ==
    /\ launched = "Tic-Tac-Toe"
    /\ ttt_game.pc = "game_loop"
    /\ LET game == TttEvents(ttt_game, events, 1)
       IN  ttt_game' = IF game.state = "quit" THEN [game EXCEPT !.pc = "returned"]
                       ELSE IF game.game_over THEN [game EXCEPT !.pc = "end_screen"]
                       ELSE IF game.state = "main_menu" THEN [game EXCEPT !.pc = "main_menu"]
                       ELSE game
    /\ UNCHANGED notTtt

\* end_screen: QUIT, or a click on one of its buttons; game_loop then goes on or
\* is left
TttEndScreen(action) ==
    /\ launched = "Tic-Tac-Toe"
    /\ ttt_game.pc = "end_screen"
    /\ ttt_game' =
           IF action = "QUIT" THEN [ttt_game EXCEPT !.state = "quit", !.pc = "returned"]
           ELSE IF action = "play_again"
           THEN [restart_game(ttt_game) EXCEPT !.state = "game_loop", !.pc = "game_loop"]
           ELSE [ttt_game EXCEPT !.state = "main_menu", !.pc = "main_menu"]
    /\ UNCHANGED notTtt

TttNext ==
    \/ \E action \in {"play", "quit", "QUIT"} : TttMainMenu(action)
    \/ \E n \in 0..TttMaxEvents :
           \E events \in [1..n -> [type : {"MOUSEBUTTONDOWN"}, row : 1..BOARD_ROWS,
                                   col : 1..BOARD_COLS, choice : {"resume"}]
                                      \cup [type : {"QUIT", "K_r", "K_s"}, row : {1}, col : {1},
                                            choice : {"resume"}]
                                      \cup [type : {"K_p"}, row : {1}, col : {1},
                                            choice : {"resume", "quit"}]] :
               TttFrame(events)
    \/ \E action \in {"QUIT", "play_again", "quit"} : TttEndScreen(action)

(***************************************************************************)
(* Tetris (tetris_game.py): run_game, one frame of its innermost loop at a *)
(* time.  The falling pieces are left out: a frame's inputs say whether a  *)
(* piece was locked in the frame, how many full rows clear_lines then      *)
(* found and whether the next piece collided; the board of the game holds  *)
(* nothing but those full rows.  last describes the frame just run.        *)
(***************************************************************************)
\* clear_lines removes rows at most this many times in one run of run_game
TetRunMaxClears == 6

LAST_LEVEL == 5

\* a board whose lowest n rows are full
RowsFull(n) ==
    [r \in 1..ROWS |-> IF r > ROWS - n THEN [c \in 1..COLS |-> "I"] ELSE EmptyRow]

\* game = TetrisGame() with game.level and game.score set for the level
TetRunNewGame(current_level, total_score) ==
    [NewGame("I", "I") EXCEPT !.level = current_level - 1, !.score = total_score]

TetRunNoFrame ==
    [outcome |-> "none", level |-> 0, lines |-> 0, score |-> 0,
     saved |-> FALSE, passed |-> 0, raised |-> FALSE]

\* run_game has not been called
TetRunIdle == tet_run = [pc |-> "idle"]

\* run_game shows main_menu
TetRunInit ==
    tet_run = [pc |-> "menu", current_level |-> 1, total_score |-> 0,
               game |-> TetRunNewGame(1, 0), clears |-> 0, last |-> TetRunNoFrame]

\* main_menu returns: 'quit' ends run_game, 'play' starts level 1
TetRunMainMenu(menu_choice) ==
    /\ launched = "Tetris run_game"
    /\ tet_run.pc = "menu"
    /\ tet_run' = IF menu_choice = "quit"
                  THEN [tet_run EXCEPT !.pc = "returned", !.last = TetRunNoFrame]
                  ELSE [tet_run EXCEPT !.pc = "playing", !.current_level = 1,
                                       !.total_score = 0, !.game = TetRunNewGame(1, 0),
                                       !.last = TetRunNoFrame]
    /\ UNCHANGED <<score_file, notTrun>>

\* game.lines_cleared_total >= current_level * 10
LinesReached(lines_cleared_total, current_level) ==
    lines_cleared_total >= current_level * 10

\* one frame of the loop of a level.  event is what the event loop handled: no
\* lock, a QUIT (or 'quit' from the pause or settings menu), or a drop that
\* locked the piece, with num_cleared full rows and over the collision of the
\* next piece; key is a key of the same frame that follows the lock.  Then
\* the test for the completed level and the test for the game over, with the
\* screens they lead to.
TetRunFrame(event, num_cleared, over, key) ==
    /\ launched = "Tetris run_game"
    /\ tet_run.pc = "playing"
    /\ event # "lock" => num_cleared = 0 /\ ~over
    /\ ~over => key = "none"
    /\ num_cleared > 0 => tet_run.clears < TetRunMaxClears
    /\ LET current_level == tet_run.current_level
           game == IF event = "lock"
                   THEN [clear_lines([tet_run.game EXCEPT !.board = RowsFull(num_cleared)])
                            EXCEPT !.game_over = over]
                   ELSE tet_run.game
           clears == IF num_cleared > 0 THEN tet_run.clears + 1 ELSE tet_run.clears
           frame == [TetRunNoFrame EXCEPT !.level = current_level,
                                          !.lines = game.lines_cleared_total,
                                          !.score = game.score]
       IN  IF event = "QUIT" \/ key = "K_q"
           THEN /\ score_file' = save_score(score_file, "Tetris", PyInt(game.score))
                /\ tet_run' = [tet_run EXCEPT
                                  !.pc = "returned", !.game = game, !.clears = clears,
                                  !.last = [frame EXCEPT
                                               !.outcome = IF key = "K_q" THEN "game_over"
                                                           ELSE "quit",
                                               !.saved = TRUE, !.passed = game.score]]
           ELSE IF LinesReached(game.lines_cleared_total, current_level)
           THEN IF current_level + 1 > LAST_LEVEL
                THEN /\ score_file' = save_score(score_file, "Tetris", PyInt(game.score))
                     /\ tet_run' = [tet_run EXCEPT
                                       !.pc = "menu", !.game = game, !.clears = clears,
                                       !.total_score = game.score,
                                       !.current_level = current_level + 1,
                                       !.last = [frame EXCEPT !.outcome = "win",
                                                              !.saved = TRUE,
                                                              !.passed = game.score]]
                ELSE /\ tet_run' = [tet_run EXCEPT
                                       !.game = TetRunNewGame(current_level + 1, game.score),
                                       !.clears = clears,
                                       !.total_score = game.score,
                                       !.current_level = current_level + 1,
                                       !.last = [frame EXCEPT !.outcome = "next_level"]]
                     /\ UNCHANGED score_file
           ELSE IF game.game_over
           THEN /\ tet_run' = [tet_run EXCEPT
                                  !.pc = "raised", !.game = game, !.clears = clears,
                                  !.last = [frame EXCEPT !.outcome = "game_over",
                                                         !.raised = TRUE]]
                /\ UNCHANGED score_file
           ELSE /\ tet_run' = [tet_run EXCEPT !.game = game, !.clears = clears,
                                              !.last = frame]
                /\ UNCHANGED score_file
    /\ UNCHANGED notTrun

TetRunNext ==
    \/ \E menu_choice \in {"quit", "play"} : TetRunMainMenu(menu_choice)
    \/ \E event \in {"none", "QUIT", "lock"}, num_cleared \in 0..4, over \in BOOLEAN,
          key \in {"none", "K_r", "K_q"} : TetRunFrame(event, num_cleared, over, key)

(***************************************************************************)
(* Galaga (galaga.py): challenging_stage, one pass of its loop at a time.  *)
(* Times are pygame.time.get_ticks() in milliseconds.  Positions are left  *)
(* out: an enemy is kept by its health, the bullets by their number, and a *)
(* pass's inputs say which enemies and bullets left the screen and which   *)
(* enemy a bullet hit.  destroyed counts the enemies shot down.            *)
(***************************************************************************)
\* the shortest time one pass of the loop takes, in milliseconds
GalFrameMs == 100

PLAYER_MAX_BULLETS == 2

STAGE_MS == 20000

SPAWN_MS == 200

PERFECT_BONUS == 10000

\* Enemy(enemy_type), as far as the stage uses it
Enemy(enemy_type) ==
    [type |-> enemy_type, health |-> IF enemy_type = "BOSS" THEN 2 ELSE 1,
     path |-> "None", path_step |-> 0]

\* Enemy.set_path(path): the enemy afterwards and the value the call returns
set_path(enemy, path) ==
    [self |-> [enemy EXCEPT !.path = path, !.path_step = 0], returned |-> "None"]

\* paths[enemies_spawned % len(paths)](enemies_spawned): the value of the lambda
GalPathFunc(i) ==
    set_path(Enemy(IF i % 3 = 2 THEN "BOSS" ELSE "DRONE"),
             IF i % 3 = 2 THEN 300 ELSE 240).returned

\* the sequence without the elements at the indices in gone
RECURSIVE GalRemove(_, _, _)
GalRemove(seq, gone, i) ==
    IF i > Len(seq) THEN <<>>
    ELSE (IF i \in gone THEN <<>> ELSE <<seq[i]>>) \o GalRemove(seq, gone, i + 1)

\* challenging_stage has not been called
GalIdle == gal_stage = [pc |-> "idle"]

\* challenging_stage before the first pass of its loop, called start_time
\* milliseconds after pygame.init()
GalStart(start_time) ==
    [pc |-> "running", start_time |-> start_time, now |-> start_time,
     total_enemies |-> 40, enemies_spawned |-> 0, last_spawn_time |-> 0,
     enemies |-> <<>>, player_bullets |-> 0, score |-> 0, destroyed |-> 0,
     outcome |-> "none", bonus |-> FALSE]

GalInit == gal_stage \in {GalStart(start_time) : start_time \in {0, 10 * GalFrameMs}}

\* one pass of the loop, or the end of the stage once its 20 seconds are over.
\* event is the event handled, gone the enemies that left the screen, away the
\* number of bullets that left it, hit the enemy a bullet hit (0: none), and
\* dt the time the pass took
GalFrame(stage, event, gone, away, hit, dt) ==
    IF stage.now - stage.start_time >= STAGE_MS
    THEN [stage EXCEPT !.pc = "returned", !.outcome = "next_level",
                       !.bonus = stage.enemies = <<>>,
                       !.score = IF stage.enemies = <<>> THEN stage.score + PERFECT_BONUS
                                 ELSE stage.score]
    ELSE LET enemy == GalPathFunc(stage.enemies_spawned)
             spawns == /\ stage.enemies_spawned < stage.total_enemies
                       /\ stage.now - stage.last_spawn_time > SPAWN_MS
                       /\ enemy # "None"
             spawned == IF spawns THEN Append(stage.enemies, enemy) ELSE stage.enemies
             fired == IF event = "K_SPACE" /\ stage.player_bullets < PLAYER_MAX_BULLETS
                      THEN stage.player_bullets + 1 ELSE stage.player_bullets
             flying == GalRemove(spawned, gone, 1)
             bullets == fired - away
             struck == hit \in 1..Len(flying) /\ bullets > 0
             killed == struck /\ flying[hit].health - 1 <= 0
         IN  IF event = "QUIT" THEN [stage EXCEPT !.pc = "returned", !.outcome = "quit"]
             ELSE [stage EXCEPT
                      !.now = stage.now + dt,
                      !.enemies_spawned = IF spawns THEN @ + 1 ELSE @,
                      !.last_spawn_time = IF spawns THEN stage.now ELSE @,
                      !.player_bullets = IF struck THEN bullets - 1 ELSE bullets,
                      !.enemies = IF killed THEN GalRemove(flying, {hit}, 1)
                                  ELSE IF struck
                                  THEN [flying EXCEPT ![hit].health = @ - 1]
                                  ELSE flying,
                      !.score = IF killed THEN @ + 500 ELSE @,
                      !.destroyed = IF killed THEN @ + 1 ELSE @]

GalPass ==
    /\ launched = "Galaga challenging_stage"
    /\ gal_stage.pc = "running"
    /\ \E r \in {GalFrame(gal_stage, event, gone, away, hit, dt) :
                    event \in {"none", "QUIT", "K_SPACE"},
                    gone \in SUBSET (1..(Len(gal_stage.enemies) + 1)),
                    away \in 0..gal_stage.player_bullets,
                    hit \in 0..(Len(gal_stage.enemies) + 1),
                    dt \in {GalFrameMs, 3 * GalFrameMs}} :
           gal_stage' = r
    /\ UNCHANGED notGal

(***************************************************************************)
(* The platformer (cyber_ninja.py): the WorldManager object under any      *)
(* sequence of manage calls.  The sprites that generate_chunk adds and     *)
(* despawn_chunk kills are left out; generated_chunks is kept in full.     *)
(* Positions are whole pixels.  calls lists the generate_chunk calls of    *)
(* the last manage call, repeated says whether one of them was for a chunk *)
(* that was in generated_chunks when it was made, and despawned holds the  *)
(* chunks the last manage call despawned.                                  *)
(***************************************************************************)
\* the player stays within this many chunks of the origin, in x and in y
WmMaxChunk == 1

\* 15 * assets.platform_tile.get_width()
chunk_size == 15 * 4 * 20

\* generate_chunk(chunk_x, chunk_y)
generate_chunk(world, chunk_x, chunk_y) ==
    [world EXCEPT !.generated_chunks = @ \cup {<<chunk_x, chunk_y>>},
                  !.calls = Append(@, <<chunk_x, chunk_y>>),
                  !.repeated = @ \/ <<chunk_x, chunk_y>> \in world.generated_chunks]

\* the body of manage's loops over x and y without the test of generated_chunks
GenerateAlways(world, x, y) == generate_chunk(world, x, y)

\* manage: the body of its loops over x and y
GenerateIfNew(world, x, y) ==
    IF <<x, y>> \notin world.generated_chunks THEN generate_chunk(world, x, y) ELSE world

\* manage: its loops over y in range(player_chunk_y - 1, player_chunk_y + 3) and
\* x in range(player_chunk_x - 2, player_chunk_x + 3), from the k-th pair on
RECURSIVE GenerateAround(_, _, _, _)
GenerateAround(world, player_chunk_x, player_chunk_y, k) ==
    IF k >= 4 * 5 THEN world
    ELSE GenerateAround(GenerateIfNew(world, player_chunk_x - 2 + (k % 5),
                                      player_chunk_y - 1 + (k \div 5)),
                        player_chunk_x, player_chunk_y, k + 1)

\* despawn_chunk(chunk)
despawn_chunk(world, chunk) ==
    [world EXCEPT !.generated_chunks = @ \ {chunk}, !.despawned = @ \cup {chunk}]

\* manage: for chunk in chunks_to_remove
RECURSIVE DespawnAll(_, _)
DespawnAll(world, chunks_to_remove) ==
    IF chunks_to_remove = {} THEN world
    ELSE LET chunk == CHOOSE c \in chunks_to_remove : TRUE
         IN  DespawnAll(despawn_chunk(world, chunk), chunks_to_remove \ {chunk})

\* abs
WmAbs(n) == IF n < 0 THEN -n ELSE n

\* manage(player_pos)
manage(world, player_pos) ==
    LET player_chunk_x == player_pos[1] \div chunk_size
        player_chunk_y == player_pos[2] \div chunk_size
        generated == GenerateAround([world EXCEPT !.calls = <<>>, !.repeated = FALSE,
                                                  !.despawned = {}],
                                    player_chunk_x, player_chunk_y, 0)
        chunks_to_remove == {chunk \in generated.generated_chunks :
                                \/ WmAbs(chunk[1] - player_chunk_x) > 3
                                \/ WmAbs(chunk[2] - player_chunk_y) > 3}
    IN  [DespawnAll(generated, chunks_to_remove)
            EXCEPT !.managed = TRUE, !.player_chunk = <<player_chunk_x, player_chunk_y>>]

\* no WorldManager has been made
WmIdle == world_manager = [managed |-> FALSE, generated_chunks |-> {}]

\* WorldManager(all_sprites, platforms, enemies, player_start_pos) with the
\* player_start_pos of run_game: generate_initial_chunks marks the start chunk
WmInit ==
    world_manager = [managed |-> FALSE,
                     generated_chunks |-> {<<(1000 \div 2) \div chunk_size,
                                             (750 - 150) \div chunk_size>>},
                     player_chunk |-> <<0, 0>>, calls |-> <<>>, repeated |-> FALSE,
                     despawned |-> {}]

\* the positions of the player: every half chunk within WmMaxChunk chunks
WmPositions ==
    {<<i * (chunk_size \div 2), j * (chunk_size \div 2)>> :
        i \in (-2 * WmMaxChunk)..(2 * WmMaxChunk + 1),
        j \in (-2 * WmMaxChunk)..(2 * WmMaxChunk + 1)}

\* world_manager.manage(player.pos)
WmManage ==
    /\ launched = "Platformer"
    /\ \E r \in {manage(world_manager, player_pos) : player_pos \in WmPositions} :
           world_manager' = r
    /\ UNCHANGED notWm

(***************************************************************************)
(* The specifications.  Each runs one script from the state in which the   *)
(* launcher starts it; the other scripts' variables keep their value.      *)
(***************************************************************************)
GamesIdle == PongInit /\ PmInit /\ AstInit /\ GhostIdle /\ FrogIdle /\ TetIdle /\ SnakeIdle /\ FlIdle /\ PacIdle /\ MsIdle /\ TttIdle /\ TetRunIdle /\ GalIdle /\ WmIdle

NoScores == score_file = NoFile /\ sc_call = NoCall

ScoresSpecInit == launched = "none" /\ ScoresInit /\ GamesIdle

SpecScores == ScoresSpecInit /\ [][ScoresNext]_vars

MalformedSpecInit ==
    /\ launched = "none"
    /\ score_file \in {NoFile, Corrupt, Undecodable} \cup WrittenFiles
    /\ sc_call = NoCall
    /\ GamesIdle

SpecMalformed ==
    MalformedSpecInit /\ [][\E g \in GameNames, s \in ScoreArgs : LoadAndSave(g, s)]_vars

PongSpecInit == launched = "Pong" /\ NoScores /\ GamesIdle

SpecPong == PongSpecInit /\ [][PongNext]_vars

RoundsSpecInit == launched \in {"Pac-Man", "Asteroids"} /\ NoScores /\ GamesIdle

SpecRounds == RoundsSpecInit /\ [][RoundsNext]_vars

GhostSpecInit ==
    /\ launched = "Pac-Man"
    /\ NoScores /\ PongInit /\ PmInit /\ AstInit /\ GhostInit /\ FrogIdle /\ TetIdle /\ SnakeIdle /\ FlIdle /\ PacIdle /\ MsIdle /\ TttIdle /\ TetRunIdle /\ GalIdle /\ WmIdle

SpecGhost == GhostSpecInit /\ [][GhostNext]_vars

FrogSpecInit ==
    /\ launched = "Frogger"
    /\ NoScores /\ PongInit /\ PmInit /\ AstInit /\ GhostIdle /\ FrogInit /\ TetIdle /\ SnakeIdle /\ FlIdle /\ PacIdle /\ MsIdle /\ TttIdle /\ TetRunIdle /\ GalIdle /\ WmIdle

SpecFrogger == FrogSpecInit /\ [][FrogFrame]_vars

TetSpecInit ==
    /\ launched = "Tetris"
    /\ NoScores /\ PongInit /\ PmInit /\ AstInit /\ GhostIdle /\ FrogIdle /\ TetInit /\ SnakeIdle /\ FlIdle /\ PacIdle /\ MsIdle /\ TttIdle /\ TetRunIdle /\ GalIdle /\ WmIdle

SpecTetris == TetSpecInit /\ [][TetNext]_vars

SnakeSpecInit ==
    /\ launched = "Snake"
    /\ NoScores /\ PongInit /\ PmInit /\ AstInit /\ GhostIdle /\ FrogIdle /\ TetIdle
    /\ SnakeInit /\ FlIdle /\ PacIdle /\ MsIdle /\ TttIdle /\ TetRunIdle /\ GalIdle /\ WmIdle

SpecSnake == SnakeSpecInit /\ [][SnakeQuit \/ SnakeTick]_vars

FlSpecInit ==
    /\ launched = "Flappy Bird"
    /\ NoScores /\ PongInit /\ PmInit /\ AstInit /\ GhostIdle /\ FrogIdle /\ TetIdle
    /\ SnakeIdle /\ FlInit /\ PacIdle /\ MsIdle /\ TttIdle /\ TetRunIdle /\ GalIdle /\ WmIdle

SpecFlappy == FlSpecInit /\ [][FlNext]_vars

PacSpecInit ==
    /\ launched = "Pac-Man"
    /\ NoScores
    /\ PongInit /\ PmInit /\ AstInit /\ GhostIdle /\ FrogIdle /\ TetIdle
    /\ SnakeIdle /\ FlIdle /\ PacInit /\ MsIdle /\ TttIdle /\ TetRunIdle /\ GalIdle /\ WmIdle

SpecPacman == PacSpecInit /\ [][PacNext]_vars

MsSpecInit ==
    /\ launched = "Minesweeper"
    /\ NoScores
    /\ PongInit /\ PmInit /\ AstInit /\ GhostIdle /\ FrogIdle /\ TetIdle
    /\ SnakeIdle /\ FlIdle /\ PacIdle /\ MsInit /\ TttIdle /\ TetRunIdle /\ GalIdle /\ WmIdle

SpecMinesweeper == MsSpecInit /\ [][MsMainMenu \/ MsPlay]_vars

RevealSpecInit ==
    /\ launched = "Minesweeper game_loop"
    /\ NoScores
    /\ PongInit /\ PmInit /\ AstInit /\ GhostIdle /\ FrogIdle /\ TetIdle
    /\ SnakeIdle /\ FlIdle /\ PacIdle /\ TttIdle /\ TetRunIdle
    /\ GalIdle /\ WmIdle
    /\ ms_game \in {MsNewGame(1, mines) : mines \in MsBoards(1)}

SpecReveal == RevealSpecInit /\ [][MsLoop]_vars

TttSpecInit ==
    /\ launched = "Tic-Tac-Toe"
    /\ NoScores
    /\ PongInit /\ PmInit /\ AstInit /\ GhostIdle /\ FrogIdle /\ TetIdle
    /\ SnakeIdle /\ FlIdle /\ PacIdle /\ MsIdle /\ TttInit /\ TetRunIdle /\ GalIdle /\ WmIdle

SpecTicTacToe == TttSpecInit /\ [][TttNext]_vars

TetRunSpecInit ==
    /\ launched = "Tetris run_game"
    /\ NoScores
    /\ PongInit /\ PmInit /\ AstInit /\ GhostIdle /\ FrogIdle /\ TetIdle
    /\ SnakeIdle /\ FlIdle /\ PacIdle /\ MsIdle /\ TttIdle /\ TetRunInit /\ GalIdle /\ WmIdle

SpecTetrisRun == TetRunSpecInit /\ [][TetRunNext]_vars

GalSpecInit ==
    /\ launched = "Galaga challenging_stage"
    /\ NoScores
    /\ PongInit /\ PmInit /\ AstInit /\ GhostIdle /\ FrogIdle /\ TetIdle
    /\ SnakeIdle /\ FlIdle /\ PacIdle /\ MsIdle /\ TttIdle /\ TetRunIdle
    /\ GalInit /\ WmIdle

SpecGalaga == GalSpecInit /\ [][GalPass]_vars

WmSpecInit ==
    /\ launched = "Platformer"
    /\ NoScores
    /\ PongInit /\ PmInit /\ AstInit /\ GhostIdle /\ FrogIdle /\ TetIdle
    /\ SnakeIdle /\ FlIdle /\ PacIdle /\ MsIdle /\ TttIdle /\ TetRunIdle
    /\ GalIdle /\ WmInit

SpecWorld == WmSpecInit /\ [][WmManage]_vars

(***************************************************************************)
(* What the file records, read off its text.                               *)
(***************************************************************************)
Entries(file) == IF file.kind = "object" THEN DOMAIN file.map ELSE {}

TokenValue(j) == IF j.tok \in {"int", "real"} THEN j.v ELSE IF j.tok = "true" THEN 2 ELSE 0

Recorded(file, g) == IF g \in Entries(file) THEN TokenValue(file.map[g]) ELSE 0

\* C1: for every game name the recorded value never decreases under save_score
\* calls, and an entry that is present is never removed.
C1_Monotone ==
    [][\A g \in GameNames :
          g \in Entries(score_file) =>
              /\ g \in Entries(score_file')
              /\ Recorded(score_file', g) >= Recorded(score_file, g)]_vars

\* a call with a positive number below the recorded value has been made
C1_Witness ==
    /\ sc_call.called
    /\ sc_call.arg.t = "int"
    /\ sc_call.arg.v > 0
    /\ sc_call.arg.v < Recorded(sc_call.before, sc_call.game)

C2_Stores(s, cur) == s.t \in {"int", "float", "bool"} /\ s.v > 0 /\ s.v > cur

\* C2: save_score(g, s) stores s for g exactly when s is a number, s > 0 and s is
\* above the recorded value (0 without an entry); otherwise the file is unchanged;
\* so the recorded value afterwards is the maximum of the old value and s.
C2_SaveScore ==
    sc_call.called =>
        LET g == sc_call.game
            s == sc_call.arg
            cur == Recorded(sc_call.before, g)
        IN  /\ C2_Stores(s, cur) =>
                /\ Entries(score_file) = Entries(sc_call.before) \cup {g}
                /\ score_file.map[g] = JsonEncode(s)
            /\ ~C2_Stores(s, cur) => score_file = sc_call.before
            /\ s.t \in {"int", "float", "bool"} =>
                Recorded(score_file, g) = IF s.v > cur THEN s.v ELSE cur

\* both cases have happened: here a number equal to the recorded value was refused
C2_Witness ==
    /\ sc_call.called
    /\ sc_call.arg.t = "float"
    /\ sc_call.game \in Entries(sc_call.before)
    /\ sc_call.before.map[sc_call.game].tok = "int"
    /\ sc_call.arg.v = Recorded(sc_call.before, sc_call.game)

\* C4: every way of quitting during play makes game_loop return ('quit', player
\* score), so run_game saves that score and returns without the end screen and
\* without raising.
C4_PongQuit ==
    pong_quit # "none" =>
        /\ pong_ret = <<PyStr("quit"), PyInt(pong_player_score)>>
        /\ pong_saved = PyInt(pong_player_score)
        /\ pong_pc = "returned"

\* C3: in Pac-Man and in Asteroids the final score of every finished round, also
\* of one followed by 'Play Again', is saved before the score is reset: the
\* recorded high score is at least the final score of every round that has ended.
C3_RoundsSaved ==
    /\ Recorded(score_file, "Pac-Man") >= 2 * pm_best
    /\ Recorded(score_file, "Asteroids") >= 2 * ast_best

\* C5: every ghost cell is inside the maze (0 <= x < 28, 0 <= y < 31), and
\* Ghost.move subscripts MAZE only with rows 0..30 and columns 0..27 (no negative
\* index, no IndexError).
C5_GhostInBounds ==
    /\ <<gh_x, gh_y>> \in MazeCells
    /\ gh_pc # "IndexError"
    /\ \A r \in gh_reads : <<r[2], r[1]>> \in MazeCells

\* C6: while the level is played the frog's position stays inside the playfield:
\* 0 <= x <= SCREEN_WIDTH - FROG_SIZE and 0 <= y <= SCREEN_HEIGHT - FROG_SIZE.
C6_FrogInPlayfield ==
    frog_pc = "playing" =>
        /\ 0 <= frog_x /\ frog_x <= SCREEN_WIDTH - FROG_SIZE
        /\ 0 <= frog_y /\ frog_y <= SCREEN_HEIGHT - FROG_SIZE

\* C9: whenever a collision of the frog with a floater or an obstacle is
\* evaluated, the frog's rectangle is at the frog's position.
C9_RectAtPosition == frog_coll.evaluated => frog_coll.off = <<0, 0>>

\* C7: whenever game_over is False, all four cells of the current piece lie
\* inside the board and on cells of the board that are empty.
C7_PieceOnFreeCells ==
    ~tet_game.game_over =>
        \A i \in 1..Len(tet_game.current_piece.shape) :
            LET x == tet_game.current_piece.x + tet_game.current_piece.shape[i][1]
                y == tet_game.current_piece.y + tet_game.current_piece.shape[i][2]
            IN  /\ 0 <= x /\ x < COLS
                /\ 0 <= y /\ y < ROWS
                /\ tet_game.board[y + 1][x + 1] = "None"

\* a piece has been locked and the current piece, after moves, stands directly
\* on a filled cell while the game goes on
C7_Witness ==
    /\ ~tet_game.game_over
    /\ tet_locks >= 1
    /\ tet_game.current_piece.y > 1
    /\ \E i \in 1..Len(tet_game.current_piece.shape) :
           LET x == tet_game.current_piece.x + tet_game.current_piece.shape[i][1]
               y == tet_game.current_piece.y + tet_game.current_piece.shape[i][2]
           IN  y + 1 < ROWS /\ tet_game.board[y + 2][x + 1] # "None"

\* C8: at the start of every tick all body segments lie inside the grid and no
\* two segments are on the same cell: the tick in which the head leaves the grid
\* or steps onto another segment ends the round.
C8_SnakeInGrid ==
    sn_pc = "playing" =>
        /\ \A i \in 1..Len(sn_snake_body) :
               /\ 0 <= sn_snake_body[i][1] /\ sn_snake_body[i][1] < GRID_WIDTH
               /\ 0 <= sn_snake_body[i][2] /\ sn_snake_body[i][2] < GRID_HEIGHT
        /\ \A i, j \in 1..Len(sn_snake_body) :
               i # j => sn_snake_body[i] # sn_snake_body[j]

\* the head has stepped onto another segment and that tick has ended the round
C8_Witness ==
    /\ sn_pc = "game_over"
    /\ \E i \in 2..Len(sn_snake_body) : sn_snake_body[1] = sn_snake_body[i]

\* C10: pressing Space after game over restores the state run_game started the
\* first round with: the bird rectangle at x = 65, y = SCREEN_HEIGHT // 2 - 50,
\* bird_movement = 0, score = 0, an empty pipe list and game_active = True.
C10_RestartRestores ==
    fl_restarted =>
        /\ fl_bird_rect = FlStart(0).bird_rect
        /\ fl_bird_movement = FlStart(0).bird_movement
        /\ fl_score = FlStart(0).score
        /\ fl_pipe_list = FlStart(0).pipe_list
        /\ fl_game_active = FlStart(0).game_active

\* C11: 'Play Again' on the end screen of Pac-Man restores the state game_loop
\* started with: the player's position, every ghost's position, all pellets and
\* power pellets, score = 0, lives = 3, game_over = False, and the pending
\* direction (dx, dy) = (0, 0).
C11_PlayAgainRestores ==
    pac_game.pc = "playing" /\ pac_game.restarted =>
        /\ pac_game.player = player_start_pos
        /\ \A i \in 1..4 : <<pac_game.ghosts[i].x, pac_game.ghosts[i].y>> = ghost_start_list[i]
        /\ pac_game.pellets = MazeItems(".")
        /\ pac_game.power_pellets = MazeItems("o")
        /\ pac_game.score = 0
        /\ pac_game.lives = START_LIVES
        /\ ~pac_game.game_over
        /\ pac_game.d = <<0, 0>>

\* C12: save_score(g, s) never adds, removes or changes the entry of another
\* game h # g.
C12_OtherEntriesKept ==
    sc_call.called =>
        \A h \in GameNames \ {sc_call.game} :
            /\ h \in Entries(score_file) <=> h \in Entries(sc_call.before)
            /\ h \in Entries(score_file) => score_file.map[h] = sc_call.before.map[h]

\* a call has rewritten the file while another game had an entry
C12_Witness ==
    /\ sc_call.called
    /\ score_file # sc_call.before
    /\ Entries(sc_call.before) \ {sc_call.game} # {}

\* C13: load_scores returns an empty mapping, without raising, whenever the score
\* file is missing or not valid JSON; save_score(g, s) with a positive number s
\* then writes a file with exactly the entry g: s.
C13_MalformedIsEmpty ==
    sc_call.called /\ sc_call.before.kind # "object" =>
        /\ ~sc_call.raised
        /\ sc_call.arg.t \in {"int", "float", "bool"} /\ sc_call.arg.v > 0 =>
               score_file = JsonObject([g \in {sc_call.game} |-> JsonEncode(sc_call.arg)])

(***************************************************************************)
(* Minesweeper: the set of cells a reveal is said to show.  From the cells *)
(* S, the unflagged cells of the grid next to a cell of S that is no mine, *)
(* has no adjacent mine, carries no flag and is not in `closed`, and so on *)
(* until nothing is added.                                                 *)
(***************************************************************************)
RECURSIVE C14_Reach(_, _, _)
C14_Reach(S, st, closed) ==
    LET n == LEVEL_CONFIGS[st.level].grid_size
        open == {c \in S : /\ c \notin st.mines
                           /\ adjacent_mines(st.mines, c) = 0
                           /\ c \notin st.call.flagged
                           /\ c \notin closed}
        next == S \cup {c \in (0..(n - 1)) \X (0..(n - 1)) :
                           /\ c \notin st.call.flagged
                           /\ \E z \in open : Abs(z[1] - c[1]) <= 1 /\ Abs(z[2] - c[2]) <= 1}
    IN  IF next = S THEN S ELSE C14_Reach(next, st, closed)

\* what the claim says of a call on an unrevealed, unflagged cell, but for the set
C14_Safe ==
    /\ ms_game.call.after \cap ms_game.call.flagged = {}
    /\ (ms_game.call.after \ ms_game.call.before) \cap ms_game.mines \subseteq {ms_game.call.pos}
    /\ ms_game.call.after \subseteq (0..(LEVEL_CONFIGS[ms_game.level].grid_size - 1))
                                        \X (0..(LEVEL_CONFIGS[ms_game.level].grid_size - 1))
    /\ ms_game.call.before \subseteq ms_game.call.after

C14_Called ==
    /\ ms_game.pc = "playing"
    /\ ms_game.call.made
    /\ ms_game.call.pos \notin ms_game.call.before \cup ms_game.call.flagged

\* C14: reveal_cells on an in-grid, unrevealed, unflagged cell reveals exactly the
\* cell and, if it is no mine and has no adjacent mine, every unflagged cell
\* reachable from it by 8-neighbour steps whose intermediate cells are all
\* unflagged zero-count cells; it reveals no flagged cell, no mine but the start
\* cell, nothing outside the grid, and un-reveals nothing.
C14_RevealsFlood ==
    C14_Called =>
        /\ ms_game.call.after = ms_game.call.before \cup C14_Reach({ms_game.call.pos}, ms_game, {})
        /\ C14_Safe

\* C14 as amended: the intermediate cells are unflagged zero-count cells that were
\* not revealed before the call.
C14_RevealsFloodOfHidden ==
    C14_Called =>
        /\ ms_game.call.after =
               ms_game.call.before \cup C14_Reach({ms_game.call.pos}, ms_game, ms_game.call.before)
        /\ C14_Safe

\* a call on a zero-count cell next to a revealed zero-count cell that has a
\* hidden, unflagged neighbour, which stays hidden
C14_Witness ==
    /\ C14_Called
    /\ adjacent_mines(ms_game.mines, ms_game.call.pos) = 0
    /\ ms_game.call.pos \notin ms_game.mines
    /\ \E z \in ms_game.call.before :
           /\ adjacent_mines(ms_game.mines, z) = 0 /\ z \notin ms_game.mines
           /\ Abs(z[1] - ms_game.call.pos[1]) <= 1 /\ Abs(z[2] - ms_game.call.pos[2]) <= 1
           /\ \E c \in (0..(MsGridSize - 1)) \X (0..(MsGridSize - 1)) :
                  /\ Abs(z[1] - c[1]) <= 1 /\ Abs(z[2] - c[2]) <= 1
                  /\ c \notin ms_game.call.after \cup ms_game.call.flagged

\* C18: once a level 1-4 of Minesweeper has been won, pressing R makes
\* game_loop return 'win' (it returns only 'win', 'game_over' or 'quit') and
\* run_game starts the next level, whichever of the two polls receives the key.
C18_RAfterWin ==
    ms_game.pc # "idle" /\ ms_game.last.outcome # "none" /\ ms_game.last.won =>
        /\ ms_game.last.outcome \in {"win", "game_over", "quit"}
        /\ ms_game.last.level \in 1..4 /\ ms_game.last.key = "K_r" =>
               /\ ms_game.last.outcome = "win"
               /\ ms_game.pc = "playing"
               /\ ms_game.level = ms_game.last.level + 1

(***************************************************************************)
(* C15: in Tetris, after clear_lines the board is the board it was called  *)
(* on without its full rows, the rows kept in their order from top to      *)
(* bottom below as many empty rows as were removed: it has ROWS rows of    *)
(* COLS cells and no full row, and lines_cleared_total has grown by the    *)
(* number of rows removed.                                                 *)
(***************************************************************************)
C15_FullRows(board) == {r \in 1..ROWS : \A c \in 1..COLS : board[r][c] # "None"}

C15_ClearLines ==
    tet_game.board # <<>> /\ tet_game.last_lock.called =>
        LET before == tet_game.last_lock.board
            after == tet_game.board
            removed == Cardinality(C15_FullRows(before))
            keeps(r) == Cardinality({q \in 1..r : q \notin C15_FullRows(before)})
        IN  /\ DOMAIN after = 1..ROWS
            /\ \A r \in 1..ROWS : DOMAIN after[r] = 1..COLS
            /\ \A r \in 1..removed : \A c \in 1..COLS : after[r][c] = "None"
            /\ \A r \in (1..ROWS) \ C15_FullRows(before) :
                   after[removed + keeps(r)] = before[r]
            /\ C15_FullRows(after) = {}
            /\ tet_game.lines_cleared_total
                   = tet_game.last_lock.lines_cleared_total + removed

\* a call that removed a full row from under rows that hold cells
C15_Witness ==
    /\ tet_game.board # <<>> /\ tet_game.last_lock.called
    /\ C15_FullRows(tet_game.last_lock.board) # {}
    /\ \E r \in 1..ROWS, c \in 1..COLS :
           /\ r < ROWS /\ r \notin C15_FullRows(tet_game.last_lock.board)
           /\ \E q \in C15_FullRows(tet_game.last_lock.board) : r < q
           /\ tet_game.last_lock.board[r][c] # "None"

(***************************************************************************)
(* C16: in Tic-Tac-Toe game_over is True exactly when the last move made   *)
(* since the restart gave the mover a complete row, column or diagonal     *)
(* (winner is then the mover) or filled the last empty square without such *)
(* a line (winner is then None); at most one player has a complete line;   *)
(* and no step that starts and ends with game_over True changes the board. *)
(***************************************************************************)
TttLine(board, player) ==
    \E line \in {{<<row, col>> : col \in 1..3} : row \in 1..3}
                 \cup {{<<row, col>> : row \in 1..3} : col \in 1..3}
                 \cup {{<<1, 1>>, <<2, 2>>, <<3, 3>>}, {<<1, 3>>, <<2, 2>>, <<3, 1>>}} :
        \A sq \in line : board[sq[1]][sq[2]] = player

TttMarks(board, player) ==
    Cardinality({sq \in (1..3) \X (1..3) : board[sq[1]][sq[2]] = player})

C16_GameOverState ==
    ttt_game.pc # "idle" =>
        LET game == ttt_game
            moved == game.click.made /\ game.click.ok
            wins == moved /\ TttLine(game.board, game.click.player)
            fills == moved /\ TttMarks(game.board, "None") = 0
        IN  /\ game.game_over <=> (wins \/ fills)
            /\ game.game_over => game.winner = IF wins THEN game.click.player ELSE "None"
            /\ ~game.game_over => game.winner = "None"
            /\ ~(TttLine(game.board, "X") /\ TttLine(game.board, "O"))

C16_WitnessWin ==
    ttt_game.pc = "end_screen" /\ ttt_game.winner = "O" /\ TttLine(ttt_game.board, "O")

(***************************************************************************)
(* C17: in Tic-Tac-Toe the last click handled since the restart marked its *)
(* square for the player to move if the square was empty and otherwise     *)
(* changed neither the board nor the player to move; the marks alternate   *)
(* X, O, X, ... from the restart on: X is to move when there are as many X *)
(* as O marks and O when there is one X more, and the difference is 0 or 1.*)
(***************************************************************************)
C17_MarksAlternate ==
    ttt_game.pc # "idle" =>
        LET game == ttt_game
            click == game.click
            diff == TttMarks(game.board, "X") - TttMarks(game.board, "O")
            mover == IF diff = 0 THEN "X" ELSE "O"
        IN  /\ diff \in {0, 1}
            /\ ~game.game_over => game.player = mover
            /\ ~click.made => TttMarks(game.board, "None") = 9 /\ game.player = "X"
            /\ click.made /\ click.ok =>
                   /\ click.before[click.row][click.col] = "None"
                   /\ game.board = [click.before EXCEPT ![click.row][click.col] = click.player]
                   /\ game.game_over \/ game.player # click.player
            /\ click.made /\ ~click.ok =>
                   /\ click.before[click.row][click.col] # "None"
                   /\ game.board = click.before
                   /\ game.player = click.player

\* a click on an occupied square after three marks
C17_Witness ==
    /\ ttt_game.pc = "game_loop"
    /\ ttt_game.click.made /\ ~ttt_game.click.ok
    /\ TttMarks(ttt_game.board, "X") = 2 /\ TttMarks(ttt_game.board, "O") = 1

(***************************************************************************)
(* C19: in Tetris run_game a level is over as soon as 10 lines have been   *)
(* cleared in it: no level is being played with 10 or more lines cleared,  *)
(* and a frame that completes a level has carried the score over and has   *)
(* started the next level, or has ended level 5 with a win.                *)
(***************************************************************************)
C19_TenLinesPerLevel ==
    tet_run.pc # "idle" =>
        /\ tet_run.pc = "playing" => tet_run.game.lines_cleared_total < 10
        /\ tet_run.last.outcome \in {"next_level", "win"} =>
               /\ tet_run.last.lines >= 10
               /\ tet_run.total_score = tet_run.last.score
               /\ IF tet_run.last.level < LAST_LEVEL
                  THEN /\ tet_run.last.outcome = "next_level"
                       /\ tet_run.pc = "playing"
                       /\ tet_run.current_level = tet_run.last.level + 1
                       /\ tet_run.game.score = tet_run.total_score
                  ELSE tet_run.last.outcome = "win"

(***************************************************************************)
(* C20: when a frame of Tetris run_game ends the session with the game     *)
(* over, run_game has not raised and has called scores.save_score with the *)
(* score of the game at that moment, game.score.                           *)
(***************************************************************************)
C20_GameOverSaved ==
    tet_run.pc # "idle" /\ tet_run.last.outcome = "game_over" =>
        /\ ~tet_run.last.raised
        /\ tet_run.last.saved
        /\ tet_run.last.passed = tet_run.last.score

(***************************************************************************)
(* C21: in TetrisGame, once game_over is True no call of move, rotate,     *)
(* drop or hard_drop changes the board, the current piece, the next piece, *)
(* the score or lines_cleared_total.                                       *)
(***************************************************************************)
C21_GameOverFrozen ==
    [][tet_game.board # <<>> /\ tet_game.game_over =>
           /\ tet_game'.board = tet_game.board
           /\ tet_game'.current_piece = tet_game.current_piece
           /\ tet_game'.next_piece = tet_game.next_piece
           /\ tet_game'.score = tet_game.score
           /\ tet_game'.lines_cleared_total = tet_game.lines_cleared_total]_vars

(***************************************************************************)
(* C22: in Minesweeper, after a frame whose left click fell on a flagged   *)
(* cell the revealed cells are the ones revealed before the click and      *)
(* game_over is False, whether or not the cell holds a mine.               *)
(***************************************************************************)
C22_FlaggedClickInert ==
    ms_game.pc # "idle" /\ ms_game.call.made /\ ms_game.call.pos \in ms_game.call.flagged =>
        /\ ms_game.revealed = ms_game.call.before
        /\ ~ms_game.game_over

(***************************************************************************)
(* C23: when a Galaga challenging stage has run its 20 seconds, it has     *)
(* spawned total_enemies = 40 enemies, and the perfect bonus has been      *)
(* added to the score only if the player shot down all 40 of them.         *)
(***************************************************************************)
C23_PerfectBonus ==
    gal_stage.pc = "returned" /\ gal_stage.outcome = "next_level" =>
        /\ gal_stage.enemies_spawned = gal_stage.total_enemies
        /\ gal_stage.bonus => gal_stage.destroyed = gal_stage.total_enemies

(***************************************************************************)
(* C24: after every call manage(player_pos) of the platformer's            *)
(* WorldManager, with (px, py) the player's chunk: every chunk (x, y) with *)
(* px-2 <= x <= px+2 and py-1 <= y <= py+2 is in generated_chunks, no      *)
(* chunk with |x - px| > 3 or |y - py| > 3 is in generated_chunks, and no  *)
(* generate_chunk call of manage was for a chunk already in                *)
(* generated_chunks.                                                       *)
(***************************************************************************)
C24_ChunksAroundPlayer ==
    world_manager.managed =>
        LET px == world_manager.player_chunk[1]
            py == world_manager.player_chunk[2]
        IN  /\ \A x \in (px - 2)..(px + 2), y \in (py - 1)..(py + 2) :
                   <<x, y>> \in world_manager.generated_chunks
            /\ \A chunk \in world_manager.generated_chunks :
                   /\ chunk[1] - px <= 3 /\ px - chunk[1] <= 3
                   /\ chunk[2] - py <= 3 /\ py - chunk[2] <= 3
            /\ ~world_manager.repeated
            /\ \A i, j \in 1..Len(world_manager.calls) :
                   i # j => world_manager.calls[i] # world_manager.calls[j]

\* a manage call that generated some chunks of its window, found the others
\* generated, and despawned a chunk, leaving chunks outside the window
C24_Witness ==
    /\ world_manager.managed
    /\ Len(world_manager.calls) \in 1..19
    /\ world_manager.despawned # {}
    /\ Cardinality(world_manager.generated_chunks) > 20

====
